---- MODULE Spec2Model ----
(***************************************************************************)
(* goplantuml: the class parser (model builder and relationship resolver), *)
(* the type expression resolver and the PlantUML and Mermaid renderers.    *)
(*                                                                         *)
(* Go strings are modelled as sequences of one-character strings, so that  *)
(* fmt.Sprintf, strings.Replace, strings.Split, strings.Count, the regexp  *)
(* of GenerateRenamedStructName and sort.Strings are computed on           *)
(* characters as the code computes them.                                   *)
(*                                                                         *)
(* A function of the code whose result is used several times is written as *)
(* an operator that computes the result once and hands it to a second      *)
(* operator (named ...With, ...Of, ...From) as an argument.                *)
(***************************************************************************)
EXTENDS Integers, Sequences, FiniteSets, TLC

VARIABLES
    exp,        \* SpecField: the type expression handed to getFieldType
    res,        \* SpecField: what getFieldType returned for exp
    fpc,        \* SpecField: "input" before the call, "resolved" after
                \* getFieldType, "declared" after processSpec ("panicked" when
                \* it panicked)
    p,          \* the ClassParser
    pc,         \* where NewClassDiagramWithOptions stands: "build", "built",
                \* "failed" (it returned an error), "panic" (a declaration
                \* handler panicked), "options panic" (SetRenderingOptions did)
    history,    \* the packages, imports and declarations parsed so far
    rendered,   \* the calls of SetRenderingOptions and Render on the built
                \* parser: the parser before each call and the text returned
    options     \* the option map last handed to SetRenderingOptions

fieldVars == <<exp, res, fpc>>
buildVars == <<p, pc, history>>
vars == <<exp, res, fpc, p, pc, history, rendered, options>>

---------------------------------------------------------------------------
(* Bounds of the model.                                                    *)

\* nesting depth of the type expressions handed to getFieldType
MaxDepth == 3

\* imports and declarations parsed in one build
MaxDecls == 3

\* packages parsed in one build
MaxPackages == 1

\* calls of SetRenderingOptions and Render on one built parser
MaxCalls == 3

---------------------------------------------------------------------------
(* Strings.                                                                *)

\* byte value of a character, the order sort.Strings and strings.Compare use
Code ==
    " " :> 32 @@ "!" :> 33 @@ "\"" :> 34 @@ "#" :> 35 @@ "$" :> 36 @@ "%" :> 37 @@
    "&" :> 38 @@ "'" :> 39 @@ "(" :> 40 @@ ")" :> 41 @@ "*" :> 42 @@ "+" :> 43 @@
    "," :> 44 @@ "-" :> 45 @@ "." :> 46 @@ "/" :> 47 @@ "0" :> 48 @@ "1" :> 49 @@
    "2" :> 50 @@ "3" :> 51 @@ "4" :> 52 @@ "5" :> 53 @@ "6" :> 54 @@ "7" :> 55 @@
    "8" :> 56 @@ "9" :> 57 @@ ":" :> 58 @@ ";" :> 59 @@ "<" :> 60 @@ "=" :> 61 @@
    ">" :> 62 @@ "?" :> 63 @@ "@" :> 64 @@ "A" :> 65 @@ "B" :> 66 @@ "C" :> 67 @@
    "D" :> 68 @@ "E" :> 69 @@ "F" :> 70 @@ "G" :> 71 @@ "H" :> 72 @@ "I" :> 73 @@
    "J" :> 74 @@ "K" :> 75 @@ "L" :> 76 @@ "M" :> 77 @@ "N" :> 78 @@ "O" :> 79 @@
    "P" :> 80 @@ "Q" :> 81 @@ "R" :> 82 @@ "S" :> 83 @@ "T" :> 84 @@ "U" :> 85 @@
    "V" :> 86 @@ "W" :> 87 @@ "X" :> 88 @@ "Y" :> 89 @@ "Z" :> 90 @@ "[" :> 91 @@
    "\\" :> 92 @@ "]" :> 93 @@ "^" :> 94 @@ "_" :> 95 @@ "a" :> 97 @@
    "b" :> 98 @@ "c" :> 99 @@ "d" :> 100 @@ "e" :> 101 @@ "f" :> 102 @@ "g" :> 103 @@
    "h" :> 104 @@ "i" :> 105 @@ "j" :> 106 @@ "k" :> 107 @@ "l" :> 108 @@ "m" :> 109 @@
    "n" :> 110 @@ "o" :> 111 @@ "p" :> 112 @@ "q" :> 113 @@ "r" :> 114 @@ "s" :> 115 @@
    "t" :> 116 @@ "u" :> 117 @@ "v" :> 118 @@ "w" :> 119 @@ "x" :> 120 @@ "y" :> 121 @@
    "z" :> 122 @@ "{" :> 123 @@ "|" :> 124 @@ "}" :> 125 @@ "~" :> 126

Between(k, lo, hi) == k >= lo /\ k <= hi

\* bytes 48..57 are 0-9, 65..90 are A-Z, 97..122 are a-z
IsAlnumCode(k) == Between(k, 48, 57) \/ Between(k, 65, 90) \/ Between(k, 97, 122)

\* the characters the class [a-zA-Z0-9] of GenerateRenamedStructName keeps
IsAlnum(c) == IsAlnumCode(Code[c])

\* unicode.IsUpper and unicode.IsLower on the bytes of the model
IsUpper(c) == Between(Code[c], 65, 90)
IsLower(c) == Between(Code[c], 97, 122)

Range(s) == {s[i] : i \in DOMAIN s}

\* a and b agree before position i, where a ends or holds the smaller byte
LessAt(a, b, i) ==
    /\ \A j \in 1..(i - 1) : j <= Len(a) /\ a[j] = b[j]
    /\ (i > Len(a) \/ Code[a[i]] < Code[b[i]])

\* a < b in byte order, the order of Go's < on strings
StrLess(a, b) == \E i \in 1..Len(b) : LessAt(a, b, i)

\* the sorted sequence of the strings of a finite set: what sort.Strings
\* leaves of the keys a range loop collected, in whatever order it visited them
Rank(S, x) == Cardinality({y \in S : StrLess(y, x)}) + 1
SortedSeq(S) == [k \in 1..Cardinality(S) |-> CHOOSE x \in S : Rank(S, x) = k]

\* index i stands before index j once sort.Strings has sorted list
SortsBefore(list, i, j) == StrLess(list[i], list[j]) \/ (list[i] = list[j] /\ i < j)

PlaceOf(list, i) == Cardinality({j \in DOMAIN list : SortsBefore(list, j, i)}) + 1

\* sort.Strings on a list that may hold a string twice
SortStrings(list) ==
    [k \in DOMAIN list |-> list[CHOOSE i \in DOMAIN list : PlaceOf(list, i) = k]]

\* strings.Count(s, c) for a one-character c
StrCount(s, c) == Cardinality({i \in DOMAIN s : s[i] = c})

\* strings.Contains(s, c) for a one-character c
StrContains(s, c) == \E i \in DOMAIN s : s[i] = c

\* whether sub occurs in s at position i
OccursAt(s, sub, i) ==
    /\ i + Len(sub) - 1 <= Len(s)
    /\ \A k \in 1..Len(sub) : s[i + k - 1] = sub[k]

Occurrences(s, sub) == {i \in DOMAIN s : OccursAt(s, sub, i)}

Min(S) == CHOOSE i \in S : \A j \in S : i <= j
Max(S) == CHOOSE i \in S : \A j \in S : i >= j

\* s with the len characters from position i replaced by new
ReplaceAt(s, i, len, new) == SubSeq(s, 1, i - 1) \o new \o SubSeq(s, i + len, Len(s))

ReplaceFirstIn(s, occ, old, new) ==
    IF occ = {} THEN s ELSE ReplaceAt(s, Min(occ), Len(old), new)

\* strings.Replace(s, old, new, 1): the first occurrence only
ReplaceFirst(s, old, new) == ReplaceFirstIn(s, Occurrences(s, old), old, new)

\* strings.ReplaceAll(s, c, d) for one-character c and d
ReplaceAllChar(s, c, d) == [i \in DOMAIN s |-> IF s[i] = c THEN d ELSE s[i]]

\* strings.Trim(s, cutset): leading and trailing characters of cutset removed
TrimTo(s, kept) == IF kept = {} THEN <<>> ELSE SubSeq(s, Min(kept), Max(kept))
StrTrim(s, cutset) == TrimTo(s, {i \in DOMAIN s : s[i] \notin cutset})

\* s without a leading "*"
DropStar(s) == IF s # <<>> /\ s[1] = "*" THEN Tail(s) ELSE s

\* the text before position i and the text after it
CutAt(s, i) == <<SubSeq(s, 1, i - 1), SubSeq(s, i + 1, Len(s))>>

PositionsOf(s, c) == {i \in DOMAIN s : s[i] = c}

SplitFirstAt(s, dots) == IF dots = {} THEN <<s>> ELSE CutAt(s, Min(dots))

\* strings.SplitN(s, ".", 2): the text before the first "." and the rest
SplitN2(s) == SplitFirstAt(s, PositionsOf(s, "."))

SplitLastAt(s, at) == IF at = {} THEN <<<<>>, s>> ELSE CutAt(s, Max(at))

\* the text before the last c of s (empty without any c) and the text after it
SplitLast(s, c) == SplitLastAt(s, PositionsOf(s, c))

\* strings.Join(list, sep)
RECURSIVE JoinStrings(_, _)
JoinStrings(list, sep) ==
    IF list = <<>> THEN <<>>
    ELSE IF Len(list) = 1 THEN list[1]
    ELSE list[1] \o sep \o JoinStrings(Tail(list), sep)

Dot == <<".">>

---------------------------------------------------------------------------
(* Type expressions (go/ast) and the type expression resolver, field.go.   *)

packageConstant == <<"{", "p", "a", "c", "k", "a", "g", "e", "N", "a", "m", "e", "}">>

globalPrimitives ==
    { <<"b", "o", "o", "l">>, <<"s", "t", "r", "i", "n", "g">>, <<"i", "n", "t">>, <<"i", "n", "t", "8">>, <<"i", "n", "t", "1", "6">>, <<"i", "n", "t", "3", "2">>, <<"i", "n", "t", "6", "4">>,
      <<"u", "i", "n", "t">>, <<"u", "i", "n", "t", "8">>, <<"u", "i", "n", "t", "1", "6">>, <<"u", "i", "n", "t", "3", "2">>, <<"u", "i", "n", "t", "6", "4">>, <<"u", "i", "n", "t", "p", "t", "r">>,
      <<"b", "y", "t", "e">>, <<"r", "u", "n", "e">>, <<"f", "l", "o", "a", "t", "3", "2">>, <<"f", "l", "o", "a", "t", "6", "4">>, <<"c", "o", "m", "p", "l", "e", "x", "6", "4">>,
      <<"c", "o", "m", "p", "l", "e", "x", "1", "2", "8">>, <<"e", "r", "r", "o", "r">>,
      <<"*", "b", "o", "o", "l">>, <<"*", "s", "t", "r", "i", "n", "g">>, <<"*", "i", "n", "t">>, <<"*", "i", "n", "t", "8">>, <<"*", "i", "n", "t", "1", "6">>, <<"*", "i", "n", "t", "3", "2">>,
      <<"*", "i", "n", "t", "6", "4">>, <<"*", "u", "i", "n", "t">>, <<"*", "u", "i", "n", "t", "8">>, <<"*", "u", "i", "n", "t", "1", "6">>, <<"*", "u", "i", "n", "t", "3", "2">>, <<"*", "u", "i", "n", "t", "6", "4">>,
      <<"*", "u", "i", "n", "t", "p", "t", "r">>, <<"*", "b", "y", "t", "e">>, <<"*", "r", "u", "n", "e">>, <<"*", "f", "l", "o", "a", "t", "3", "2">>, <<"*", "f", "l", "o", "a", "t", "6", "4">>,
      <<"*", "c", "o", "m", "p", "l", "e", "x", "6", "4">>, <<"*", "c", "o", "m", "p", "l", "e", "x", "1", "2", "8">>, <<"*", "e", "r", "r", "o", "r">> }

isPrimitiveString(t) == t \in globalPrimitives

isPrimitive(ty) == isPrimitiveString(ty.Name)

replacePackageConstant(field, packageName) ==
    ReplaceFirst(field, packageConstant, packageName)

\* ast.Expr nodes
Ident(name) == [kind |-> "Ident", Name |-> name]
ArrayType(elt) == [kind |-> "ArrayType", Elt |-> elt]
StarExpr(x) == [kind |-> "StarExpr", X |-> x]
MapType(key, value) == [kind |-> "MapType", Key |-> key, Value |-> value]
ChanType(value) == [kind |-> "ChanType", Value |-> value]
Ellipsis(elt) == [kind |-> "Ellipsis", Elt |-> elt]
SelectorExpr(x, sel) == [kind |-> "SelectorExpr", X |-> x, Sel |-> sel]
\* an ast.Field: the names declared (none for an embedded field) and the type
AstField(names, type) == [Names |-> names, Type |-> type]
StructType(fields) == [kind |-> "StructType", Fields |-> fields]
InterfaceType(methods) == [kind |-> "InterfaceType", Methods |-> methods]
FuncType(params, results) == [kind |-> "FuncType", Params |-> params, Results |-> results]
\* a generic instantiation T[K]: a node getFieldType has no case for
IndexExpr(x, index) == [kind |-> "IndexExpr", X |-> x, Index |-> index]
\* a parenthesised type (T): a node getFieldType has no case for
ParenExpr(x) == [kind |-> "ParenExpr", X |-> x]

\* What a call returns: the display string t and the dependency list f, or
\* ok = FALSE when the call panicked and returned nothing.
Returned(t, f) == [t |-> t, f |-> f, ok |-> TRUE]
Panicked == [t |-> <<>>, f |-> <<>>, ok |-> FALSE]

mapOpen == <<"<", "f", "o", "n", "t", " ", "c", "o", "l", "o", "r", "=", "b", "l", "u", "e", ">", "m", "a", "p", "<", "/", "f", "o", "n", "t", ">", "[">>
chanOpen == <<"<", "f", "o", "n", "t", " ", "c", "o", "l", "o", "r", "=", "b", "l", "u", "e", ">", "c", "h", "a", "n", "<", "/", "f", "o", "n", "t", ">", " ">>
structOpen == <<"<", "f", "o", "n", "t", " ", "c", "o", "l", "o", "r", "=", "b", "l", "u", "e", ">", "s", "t", "r", "u", "c", "t", "<", "/", "f", "o", "n", "t", ">", "{">>
interfaceOpen == <<"<", "f", "o", "n", "t", " ", "c", "o", "l", "o", "r", "=", "b", "l", "u", "e", ">", "i", "n", "t", "e", "r", "f", "a", "c", "e", "<", "/", "f", "o", "n", "t", ">", "{">>
funcOpen == <<"<", "f", "o", "n", "t", " ", "c", "o", "l", "o", "r", "=", "b", "l", "u", "e", ">", "f", "u", "n", "c", "<", "/", "f", "o", "n", "t", ">", "(">>

RECURSIVE getFieldType(_, _, _)

\* a type that is its own single dependency
SelfDependent(t) == Returned(t, <<t>>)

\* fmt.Sprintf(marker + "%s", t) with the dependencies of the inner call
Prefixed(marker, r) == IF r.ok THEN Returned(marker \o r.t, r.f) ELSE Panicked

\* fmt.Sprintf(open + "%s" + close, t) with an empty dependency list
Enclosed(open, r, close) ==
    IF r.ok THEN Returned(open \o r.t \o close, <<>>) ELSE Panicked

\* one Field per declared name of a parameter (one without a name for an
\* unnamed parameter): the type with the placeholder removed, the full type
\* with the placeholder resolved to the namespace
ParameterFields(names, type, fullType) ==
    [i \in DOMAIN names |-> [Name |-> names[i], Type |-> type, FullType |-> fullType]]

ParameterNames(pa) == IF pa.Names = <<>> THEN << <<>> >> ELSE pa.Names

ParametersFrom(pa, r, rest, packageName) ==
    IF ~r.ok \/ ~rest.ok THEN [fields |-> <<>>, ok |-> FALSE]
    ELSE [fields |-> ParameterFields(ParameterNames(pa),
                                     replacePackageConstant(r.t, <<>>),
                                     replacePackageConstant(r.t, packageName))
                     \o rest.fields,
          ok |-> TRUE]

RECURSIVE getParameters(_, _, _)
getParameters(list, aliases, packageName) ==
    IF list = <<>> THEN [fields |-> <<>>, ok |-> TRUE]
    ELSE ParametersFrom(Head(list),
                        getFieldType(Head(list).Type, aliases, packageName),
                        getParameters(Tail(list), aliases, packageName),
                        packageName)

ReturnValuesFrom(r, rest) ==
    IF ~r.ok \/ ~rest.ok THEN [values |-> <<>>, ok |-> FALSE]
    ELSE [values |-> <<replacePackageConstant(r.t, <<>>)>> \o rest.values, ok |-> TRUE]

RECURSIVE getReturnValues(_, _, _)
getReturnValues(list, aliases, packageName) ==
    IF list = <<>> THEN [values |-> <<>>, ok |-> TRUE]
    ELSE ReturnValuesFrom(getFieldType(Head(list).Type, aliases, packageName),
                          getReturnValues(Tail(list), aliases, packageName))

FunctionFrom(name, ps, rs) ==
    [fn |-> [Name |-> name, Parameters |-> ps.fields, ReturnValues |-> rs.values],
     ok |-> ps.ok /\ rs.ok]

\* A Function: name, the parameter Fields in order, the return types in order
\* (ok = FALSE when resolving one of the types panicked).
getFunction(f, name, aliases, packageName) ==
    FunctionFrom(name,
                 getParameters(f.Params, aliases, packageName),
                 getReturnValues(f.Results, aliases, packageName))

getIdent(v, aliases) ==
    IF isPrimitive(v) THEN Returned(v.Name, <<>>)
    ELSE SelfDependent(packageConstant \o Dot \o v.Name)

getArrayType(v, aliases, packageName) ==
    Prefixed(<<"[", "]">>, getFieldType(v.Elt, aliases, packageName))

RealPackageName(packageName, aliases) ==
    IF packageName \in DOMAIN aliases THEN aliases[packageName] ELSE packageName

\* v.X.(*ast.Ident) is an unchecked type assertion: it panics on any other node
getSelectorExp(v, aliases) ==
    IF v.X.kind # "Ident" THEN Panicked
    ELSE SelfDependent(RealPackageName(v.X.Name, aliases) \o Dot \o v.Sel)

\* append(f1, f2...) under the map's display string
MapOf(r1, r2) ==
    IF ~r1.ok \/ ~r2.ok THEN Panicked
    ELSE Returned(mapOpen \o r1.t \o <<"]">> \o r2.t, r1.f \o r2.f)

\* getMapType keeping only the value's dependencies
getMapTypeValueOnly(v, aliases, packageName) ==
    Prefixed(mapOpen \o getFieldType(v.Key, aliases, packageName).t \o <<"]">>,
             getFieldType(v.Value, aliases, packageName))

getMapType(v, aliases, packageName) ==
    MapOf(getFieldType(v.Key, aliases, packageName),
          getFieldType(v.Value, aliases, packageName))

getStarExp(v, aliases, packageName) ==
    Prefixed(<<"*">>, getFieldType(v.X, aliases, packageName))

getChanType(v, aliases, packageName) ==
    Prefixed(chanOpen, getFieldType(v.Value, aliases, packageName))

\* one more element in front of a joined list
Joined(r, rest, sep, last) ==
    IF ~r.ok \/ ~rest.ok THEN Panicked
    ELSE IF last THEN Returned(r.t, <<>>)
    ELSE Returned(r.t \o sep \o rest.t, <<>>)

\* strings.Join of the field types with ", "
RECURSIVE joinFieldTypes(_, _, _)
joinFieldTypes(fields, aliases, packageName) ==
    IF fields = <<>> THEN Returned(<<>>, <<>>)
    ELSE Joined(getFieldType(Head(fields).Type, aliases, packageName),
                joinFieldTypes(Tail(fields), aliases, packageName),
                <<",", " ">>, Tail(fields) = <<>>)

getStructType(v, aliases, packageName) ==
    Enclosed(structOpen, joinFieldTypes(v.Fields, aliases, packageName), <<"}">>)

MethodName(field) == IF field.Names # <<>> THEN field.Names[1] ELSE <<>>

\* strings.Join of methodName + " " + type with "; "
RECURSIVE joinMethods(_, _, _)
joinMethods(methods, aliases, packageName) ==
    IF methods = <<>> THEN Returned(<<>>, <<>>)
    ELSE Joined(Prefixed(MethodName(Head(methods)) \o <<" ">>,
                         getFieldType(Head(methods).Type, aliases, packageName)),
                joinMethods(Tail(methods), aliases, packageName),
                <<";", " ">>, Tail(methods) = <<>>)

getInterfaceType(v, aliases, packageName) ==
    Enclosed(interfaceOpen, joinMethods(v.Methods, aliases, packageName), <<"}">>)

FullTypes(parameters) == [i \in DOMAIN parameters |-> parameters[i].FullType]

Returns(returnList) ==
    IF Len(returnList) > 1 THEN <<"(">> \o JoinStrings(returnList, <<",", " ">>) \o <<")">>
    ELSE JoinStrings(returnList, <<>>)

FuncTypeOf(function) ==
    IF ~function.ok THEN Panicked
    ELSE Returned(funcOpen \o JoinStrings(FullTypes(function.fn.Parameters), <<",", " ">>)
                      \o <<")", " ">> \o Returns(function.fn.ReturnValues),
                  <<>>)

getFuncType(v, aliases, packageName) ==
    FuncTypeOf(getFunction(v, <<>>, aliases, packageName))

\* the dependencies of the element are dropped: t, _ := getFieldType(...)
getEllipsis(v, aliases, packageName) ==
    Enclosed(<<".", ".", ".">>, getFieldType(v.Elt, aliases, packageName), <<>>)

getFieldType(e, aliases, packageName) ==
    CASE e.kind = "Ident" -> getIdent(e, aliases)
      [] e.kind = "ArrayType" -> getArrayType(e, aliases, packageName)
      [] e.kind = "SelectorExpr" -> getSelectorExp(e, aliases)
      [] e.kind = "MapType" -> getMapType(e, aliases, packageName)
      [] e.kind = "StarExpr" -> getStarExp(e, aliases, packageName)
      [] e.kind = "ChanType" -> getChanType(e, aliases, packageName)
      [] e.kind = "StructType" -> getStructType(e, aliases, packageName)
      [] e.kind = "InterfaceType" -> getInterfaceType(e, aliases, packageName)
      [] e.kind = "FuncType" -> getFuncType(e, aliases, packageName)
      [] e.kind = "Ellipsis" -> getEllipsis(e, aliases, packageName)
      [] OTHER -> Returned(<<>>, <<>>)

---------------------------------------------------------------------------
(* The class parser, class_parser.go.                                      *)

\* Go maps are functions with a finite domain
EmptyMap == <<>>
Put(m, k, v) == [x \in DOMAIN m \cup {k} |-> IF x = k THEN v ELSE m[x]]

BuiltinPackageName == <<"b", "u", "i", "l", "t", "i", "n">>
kClass == <<"c", "l", "a", "s", "s">>
kInterface == <<"i", "n", "t", "e", "r", "f", "a", "c", "e">>
kAlias == <<"a", "l", "i", "a", "s">>

\* the keys of the map SetRenderingOptions takes
RenderAggregations == 0
RenderCompositions == 1
RenderImplementations == 2
RenderAliases == 3
RenderFields == 4
RenderMethods == 5
RenderConnectionLabels == 6
RenderTitle == 7
RenderNotes == 8
AggregatePrivateMembers == 9
RenderPrivateMembers == 10

\* the RenderingOptions NewClassDiagramWithOptions starts from (ModuleBase,
\* which only parseDirectory reads, is left out)
DefaultRenderingOptions ==
    [Title |-> <<>>, Notes |-> <<>>, Aggregations |-> FALSE, Fields |-> TRUE,
     Methods |-> TRUE, Compositions |-> TRUE, Implementations |-> TRUE,
     Aliases |-> TRUE, ConnectionLabels |-> FALSE,
     AggregatePrivateMembers |-> FALSE, PrivateMembers |-> FALSE]

NewClassParser ==
    [RenderingOptions |-> DefaultRenderingOptions,
     Structure |-> EmptyMap,
     CurrentPackageName |-> <<>>,
     AllInterfaces |-> {},
     AllStructs |-> {},
     AllImports |-> EmptyMap,
     AllAliases |-> EmptyMap,
     AllRenamedStructs |-> EmptyMap]

\* the Struct getOrCreateStruct initializes
NewStruct(packageName) ==
    [PackageName |-> packageName, Functions |-> <<>>, Fields |-> <<>>,
     Type |-> <<>>, Composition |-> {}, Extends |-> {}, Aggregations |-> {},
     PrivateAggregations |-> {}]

getOrCreateStruct(q, name) ==
    IF name \in DOMAIN q.Structure[q.CurrentPackageName] THEN q
    ELSE [q EXCEPT !.Structure[q.CurrentPackageName] =
                       Put(@, name, NewStruct(q.CurrentPackageName))]

\* the Struct a pointer returned by getOrCreateStruct(name) points to
StructOf(q, name) == q.Structure[q.CurrentPackageName][name]

\* a write through that pointer
SetStruct(q, name, st) == [q EXCEPT !.Structure[q.CurrentPackageName][name] = st]

\* What a handler leaves: the parser, or ok = FALSE when it panicked.
Done(q) == [p |-> q, ok |-> TRUE]
Aborted(q) == [p |-> q, ok |-> FALSE]

\* a handler that wrote the Struct m.st of typeName, or panicked
StructDone(q, typeName, m) ==
    IF m.ok THEN Done(SetStruct(q, typeName, m.st)) ELSE Aborted(q)

AddToComposition(st, fType) == [st EXCEPT !.Composition = @ \cup {fType}]

AddToExtends(st, fType) == [st EXCEPT !.Extends = @ \cup {fType}]

MethodAdded(st, function) ==
    [st |-> [st EXCEPT !.Functions = Append(@, function.fn)], ok |-> function.ok]

\* A method signature member or a method declaration appended as a Function.
AddMethod(st, method, aliases) ==
    IF method.Type.kind # "FuncType" THEN [st |-> st, ok |-> TRUE]
    ELSE MethodAdded(st, getFunction(method.Type, method.Names[1], aliases,
                                     st.PackageName))

\* the dependency names with the placeholder resolved to the namespace
Dependencies(f, packageName) ==
    {replacePackageConstant(f[i], packageName) : i \in DOMAIN f}

WithField(st, name, t) ==
    [st EXCEPT !.Fields = Append(@, [Name |-> name,
                                     Type |-> replacePackageConstant(t, <<>>),
                                     FullType |-> replacePackageConstant(t, st.PackageName)])]

WithAggregations(st, exported, deps) ==
    IF exported THEN [st EXCEPT !.Aggregations = @ \cup deps]
    ELSE [st EXCEPT !.PrivateAggregations = @ \cup deps]

FieldAdded(st, field, r) ==
    IF ~r.ok THEN [st |-> st, ok |-> FALSE]
    ELSE IF field.Names = <<>>
    THEN [st |-> AddToComposition(st, DropStar(replacePackageConstant(r.t, st.PackageName))),
          ok |-> TRUE]
    ELSE [st |-> WithAggregations(WithField(st, field.Names[1], r.t),
                                  IsUpper(field.Names[1][1]),
                                  Dependencies(r.f, st.PackageName)),
          ok |-> TRUE]

\* A field of a record: an embedded field goes to the composition set, a
\* named one becomes a Field and its dependencies go to the aggregation set
\* (exported field) or to the private aggregation set.
AddField(st, field, aliases, packageName) ==
    FieldAdded(st, field, getFieldType(field.Type, aliases, packageName))

getNewAlias(name, packageName, aliasOf) ==
    [Name |-> name, PackageName |-> packageName, AliasOf |-> aliasOf]

\* regexp [^a-zA-Z0-9]+ replaced by nothing
GenerateRenamedStructName(currentName) ==
    SelectSeq(currentName, IsAlnum)

\* getBasicType removing the outermost array, pointer, map, channel or
\* variadic wrapper only
getBasicTypeOnce(theType) ==
    CASE theType.kind \in {"ArrayType", "Ellipsis"} -> theType.Elt
      [] theType.kind = "StarExpr" -> theType.X
      [] theType.kind \in {"MapType", "ChanType"} -> theType.Value
      [] OTHER -> theType

RECURSIVE getBasicType(_)
getBasicType(theType) ==
    CASE theType.kind = "ArrayType" -> getBasicType(theType.Elt)
      [] theType.kind = "StarExpr" -> getBasicType(theType.X)
      [] theType.kind = "MapType" -> getBasicType(theType.Value)
      [] theType.kind = "ChanType" -> getBasicType(theType.Value)
      [] theType.kind = "Ellipsis" -> getBasicType(theType.Elt)
      [] OTHER -> theType

GetPackageName(t, st) ==
    IF isPrimitiveString(t) THEN BuiltinPackageName ELSE st.PackageName

EnterPackage(q, current) ==
    [q EXCEPT !.CurrentPackageName = current,
              !.Structure = IF current \in DOMAIN @ THEN @ ELSE Put(@, current, EmptyMap)]

\* parsePackage up to its loop over the files: the namespace becomes current
parsePackage(q, base, name) == EnterPackage(q, base \o Dot \o name)

\* impt.Path is the unquoted import path, impt.Name is empty for no name
parseImports(q, impt) ==
    IF impt.Name # <<>>
    THEN [q EXCEPT !.AllImports = Put(@, impt.Name, ReplaceAllChar(impt.Path, "/", "."))]
    ELSE [q EXCEPT !.AllImports = Put(@, SplitLast(impt.Path, "/")[2],
                                      ReplaceAllChar(impt.Path, "/", "."))]

ClassIfUnset(st) == IF st.Type = <<>> THEN [st EXCEPT !.Type = kClass] ELSE st

\* fullName is formatted with "%s%s": no "." between namespace and type
MethodDeclared(q, theType, m) ==
    IF ~m.ok THEN Aborted(q)
    ELSE Done([SetStruct(q, theType, m.st) EXCEPT
                   !.AllStructs = @ \cup {q.CurrentPackageName \o theType}])

handleFuncDeclOn(q, decl, theType) ==
    MethodDeclared(q, theType,
                   AddMethod(ClassIfUnset(StructOf(q, theType)),
                             AstField(<<decl.Name>>, decl.Type), q.AllImports))

handleFuncDeclWith(q, decl, r) ==
    IF ~r.ok THEN Aborted(q)
    ELSE handleFuncDeclOn(
             getOrCreateStruct(q, StrTrim(replacePackageConstant(r.t, <<>>), {"*", "."})),
             decl, StrTrim(replacePackageConstant(r.t, <<>>), {"*", "."}))

\* decl.Recv is the receiver list: empty for a function without a receiver
handleFuncDecl(q, decl) ==
    IF decl.Recv = <<>> THEN Done(q)
    ELSE handleFuncDeclWith(q, decl,
             getFieldType(decl.Recv[1].Type, q.AllImports, q.CurrentPackageName))

RECURSIVE handleGenDecStructFields(_, _, _)

FieldHandled(q, typeName, a, rest) ==
    IF ~a.ok THEN Aborted(q)
    ELSE handleGenDecStructFields(SetStruct(q, typeName, a.st), typeName, rest)

handleStructField(q, typeName, fields) ==
    FieldHandled(q, typeName,
                 AddField(StructOf(q, typeName), Head(fields), q.AllImports,
                          q.CurrentPackageName),
                 Tail(fields))

handleGenDecStructFields(q, typeName, fields) ==
    IF fields = <<>> THEN Done(q)
    ELSE handleStructField(getOrCreateStruct(q, typeName), typeName, fields)

handleGenDecStructType(q, typeName, c) ==
    handleGenDecStructFields(q, typeName, c.Fields)

MethodMember(q, typeName, f) ==
    StructDone(q, typeName, AddMethod(StructOf(q, typeName), f, q.AllImports))

EmbeddedMemberOf(q, typeName, st, r) ==
    StructDone(q, typeName,
               [st |-> AddToComposition(st, replacePackageConstant(r.t, st.PackageName)),
                ok |-> r.ok])

EmbeddedMember(q, typeName, f) ==
    EmbeddedMemberOf(q, typeName, StructOf(q, typeName),
                     getFieldType(f.Type, q.AllImports, StructOf(q, typeName).PackageName))

\* one iteration of the loop of handleGenDecInterfaceType: a member that is
\* neither a signature nor a bare name is skipped
handleInterfaceMember(q, typeName, f) ==
    CASE f.Type.kind = "FuncType" -> MethodMember(getOrCreateStruct(q, typeName), typeName, f)
      [] f.Type.kind = "Ident" -> EmbeddedMember(getOrCreateStruct(q, typeName), typeName, f)
      [] OTHER -> Done(q)

RECURSIVE handleGenDecInterfaceMethods(_, _, _)

MemberHandled(r, typeName, rest) ==
    IF ~r.ok THEN r ELSE handleGenDecInterfaceMethods(r.p, typeName, rest)

handleGenDecInterfaceMethods(q, typeName, methods) ==
    IF methods = <<>> THEN Done(q)
    ELSE MemberHandled(handleInterfaceMember(q, typeName, Head(methods)), typeName,
                       Tail(methods))

handleGenDecInterfaceType(q, typeName, c) ==
    handleGenDecInterfaceMethods(q, typeName, c.Methods)

InnerMap(m, k) == IF k \in DOMAIN m THEN m[k] ELSE EmptyMap

\* pack is strings.SplitN(alias.Name, ".", 2)
RenamedAs(q, pack) ==
    [q EXCEPT !.AllRenamedStructs =
        Put(@, pack[1],
            Put(InnerMap(@, pack[1]), GenerateRenamedStructName(pack[2]), pack[2]))]

\* the "alias" case of the switch that ends processSpec
registerAlias(q, typeName, alias) ==
    IF StrCount(alias.Name, ".") > 1
    THEN RenamedAs([q EXCEPT !.AllAliases = Put(@, typeName, alias)], SplitN2(alias.Name))
    ELSE [q EXCEPT !.AllAliases = Put(@, typeName, alias)]

FullName(q, typeName) == q.CurrentPackageName \o Dot \o typeName

\* the switch that ends processSpec
Registered(q, typeName, declarationType, alias) ==
    CASE declarationType = kInterface ->
             [q EXCEPT !.AllInterfaces = @ \cup {FullName(q, typeName)}]
      [] declarationType = kClass ->
             [q EXCEPT !.AllStructs = @ \cup {FullName(q, typeName)}]
      [] OTHER -> registerAlias(q, typeName, alias)

\* p.getOrCreateStruct(typeName).Type = declarationType
KindSet(q, typeName, declarationType) ==
    SetStruct(q, typeName, [StructOf(q, typeName) EXCEPT !.Type = declarationType])

\* processSpec after its type switch, which left r
Declared(r, typeName, declarationType, alias) ==
    IF ~r.ok THEN r
    ELSE Done(Registered(KindSet(getOrCreateStruct(r.p, typeName), typeName,
                                 declarationType),
                         typeName, declarationType, alias))

AliasTypeName(q, name) ==
    IF ~isPrimitiveString(name) THEN q.CurrentPackageName \o Dot \o name ELSE name

AliasPackageName(q, basicType) ==
    IF isPrimitiveString(basicType) THEN BuiltinPackageName ELSE q.CurrentPackageName

AliasDeclared(q, typeName, name) ==
    Declared(Done(q), typeName, kAlias, getNewAlias(name, q.CurrentPackageName, typeName))

AliasResolved(q, v, basicType, aliasType) ==
    IF ~basicType.ok \/ ~aliasType.ok THEN Aborted(q)
    ELSE AliasDeclared(q, AliasTypeName(q, v.Name),
                       AliasPackageName(q, basicType.t) \o Dot
                           \o replacePackageConstant(aliasType.t, <<>>))

\* the default case of processSpec: the declared name equals some other type
processSpecAlias(q, v) ==
    AliasResolved(q, v,
                  getFieldType(getBasicType(v.Type), q.AllImports, q.CurrentPackageName),
                  getFieldType(v.Type, q.AllImports, q.CurrentPackageName))

NoAlias == getNewAlias(<<>>, <<>>, <<>>)

processSpec(q, spec) ==
    CASE spec.kind # "TypeSpec" -> Done(q)
      [] spec.kind = "TypeSpec" /\ spec.Type.kind = "StructType" ->
             Declared(handleGenDecStructType(q, spec.Name, spec.Type), spec.Name,
                      kClass, NoAlias)
      [] spec.kind = "TypeSpec" /\ spec.Type.kind = "InterfaceType" ->
             Declared(handleGenDecInterfaceType(q, spec.Name, spec.Type), spec.Name,
                      kInterface, NoAlias)
      [] OTHER -> processSpecAlias(q, spec)

RECURSIVE handleGenDeclSpecs(_, _)

SpecProcessed(r, rest) == IF ~r.ok THEN r ELSE handleGenDeclSpecs(r.p, rest)

handleGenDeclSpecs(q, specs) ==
    IF specs = <<>> THEN Done(q)
    ELSE SpecProcessed(processSpec(q, Head(specs)), Tail(specs))

handleGenDecl(q, decl) == handleGenDeclSpecs(q, decl.Specs)

parseFileDeclarations(q, node) ==
    CASE node.kind = "GenDecl" -> handleGenDecl(q, node)
      [] node.kind = "FuncDecl" -> handleFuncDecl(q, node)
      [] OTHER -> Done(q)

GetStructAt(q, split) ==
    [found |-> split[1] \in DOMAIN q.Structure /\ split[2] \in DOMAIN q.Structure[split[1]],
     pack |-> split[1], name |-> split[2]]

\* The Struct registered under the text before the last "." (the namespace)
\* and the text after it (the name): found = FALSE is the nil the code returns.
getStruct(q, structName) == GetStructAt(q, SplitLast(structName, "."))

\* two Functions have the same name, parameter types in order and return
\* types in order
SignaturesAreEqual(f1, f2) ==
    /\ f1.Name = f2.Name
    /\ Len(f1.Parameters) = Len(f2.Parameters)
    /\ \A i \in DOMAIN f1.Parameters : f1.Parameters[i].Type = f2.Parameters[i].Type
    /\ f1.ReturnValues = f2.ReturnValues

CompositionOf(q, g) == IF g.found THEN q.Structure[g.pack][g.name].Composition ELSE {}

FunctionsOf(q, g) == IF g.found THEN Range(q.Structure[g.pack][g.name].Functions) ELSE {}

RECURSIVE EmbeddedClosure(_, _)

ClosureStep(q, keys, next) == IF next = keys THEN keys ELSE EmbeddedClosure(q, next)

\* the interfaces reached from the keys through the composition sets of
\* embedded interfaces, the keys included
EmbeddedClosure(q, keys) ==
    ClosureStep(q, keys, keys \cup UNION {CompositionOf(q, getStruct(q, k)) : k \in keys})

\* the method signatures an interface requires: its own and those of the
\* interfaces it embeds, transitively
RequiredMethods(q, interKey) ==
    UNION {FunctionsOf(q, getStruct(q, k)) : k \in EmbeddedClosure(q, {interKey})}

\* st, the Struct at g, declares every method the interface at inter requires;
\* a Struct is not compared with itself
ImplementsInterface(q, g, inter, interKey) ==
    /\ inter.found
    /\ <<g.pack, g.name>> # <<inter.pack, inter.name>>
    /\ \A f1 \in RequiredMethods(q, interKey) :
           \E f2 \in FunctionsOf(q, g) : SignaturesAreEqual(f1, f2)

\* the interfaces the resolver pass adds to the Extends of the Struct at g
Implemented(q, g) ==
    {i \in q.AllInterfaces : ImplementsInterface(q, g, getStruct(q, i), i)}

AddAllToExtends(st, targets) == [st EXCEPT !.Extends = @ \cup targets]

\* the Structs the resolver pass examines: getStruct(s) for s in AllStructs,
\* those it returns nil for left out
ExaminedStructs(q) == {g \in {getStruct(q, s) : s \in q.AllStructs} : g.found}

ResolveAmong(q, examined) ==
    [q EXCEPT !.Structure =
        [pack \in DOMAIN @ |->
            [name \in DOMAIN @[pack] |->
                IF [found |-> TRUE, pack |-> pack, name |-> name] \in examined
                THEN AddAllToExtends(@[pack][name],
                         Implemented(q, [found |-> TRUE, pack |-> pack, name |-> name]))
                ELSE @[pack][name]]]]

\* the relationship resolver pass of NewClassDiagramWithOptions
ResolveRelationships(q) == ResolveAmong(q, ExaminedStructs(q))

\* option values: a bool or a string
BoolVal(b) == [type |-> "bool", b |-> b]
StrVal(s) == [type |-> "string", s |-> s]

IsBool(val) == val.type = "bool"
IsString(val) == val.type = "string"

\* What SetRenderingOptions leaves: the parser, whether it returned an error,
\* or ok = FALSE when a type assertion val.(bool) or val.(string) panicked.
OptionsSet(q) == [p |-> q, err |-> FALSE, ok |-> TRUE]
OptionsError(q) == [p |-> q, err |-> TRUE, ok |-> TRUE]
OptionsPanicked(q) == [p |-> q, err |-> FALSE, ok |-> FALSE]

\* one iteration of the loop of SetRenderingOptions on a recognized key
setOption(ro, option, val) ==
    CASE option = RenderAggregations -> [ro EXCEPT !.Aggregations = val.b]
      [] option = RenderAliases -> [ro EXCEPT !.Aliases = val.b]
      [] option = RenderCompositions -> [ro EXCEPT !.Compositions = val.b]
      [] option = RenderFields -> [ro EXCEPT !.Fields = val.b]
      [] option = RenderImplementations -> [ro EXCEPT !.Implementations = val.b]
      [] option = RenderMethods -> [ro EXCEPT !.Methods = val.b]
      [] option = RenderConnectionLabels -> [ro EXCEPT !.ConnectionLabels = val.b]
      [] option = RenderTitle -> [ro EXCEPT !.Title = val.s]
      [] option = RenderNotes -> [ro EXCEPT !.Notes = val.s]
      [] option = AggregatePrivateMembers -> [ro EXCEPT !.AggregatePrivateMembers = val.b]
      [] option = RenderPrivateMembers -> [ro EXCEPT !.PrivateMembers = val.b]

StringOptions == {RenderTitle, RenderNotes}
KnownOptions == RenderAggregations..RenderPrivateMembers

\* SetRenderingOptions visiting the keys of ro in the given order
RECURSIVE SetRenderingOptionsIn(_, _, _)
SetRenderingOptionsIn(q, ro, order) ==
    IF order = <<>> THEN OptionsSet(q)
    ELSE IF Head(order) \notin KnownOptions THEN OptionsError(q)
    ELSE IF (Head(order) \in StringOptions) # IsString(ro[Head(order)])
    THEN OptionsPanicked(q)
    ELSE SetRenderingOptionsIn(
             [q EXCEPT !.RenderingOptions = setOption(@, Head(order), ro[Head(order)])],
             ro, Tail(order))

\* the orders in which a range loop may visit the keys of a map
Orders(S) ==
    {o \in [1..Cardinality(S) -> S] : \A i, j \in DOMAIN o : i # j => o[i] # o[j]}


\* the namespaces and names of the registry entries of q
Entries(q) ==
    UNION {{<<pack, name>> : name \in DOMAIN q.Structure[pack]} : pack \in DOMAIN q.Structure}

EntryOf(q, e) == q.Structure[e[1]][e[2]]

---------------------------------------------------------------------------
(* SpecField: getFieldType applied to one type expression, and processSpec  *)
(* applied to the declaration of a type of that expression.                *)

Foo == <<"F", "o", "o">>

\* the import table of the call: the import alias q of the namespace x.q
FieldImports == (<<"q">> :> <<"x", ".", "q">>)

FieldPackage == <<"m", ".", "p">>

\* a qualified reference whose qualifier is itself a qualified reference
NestedSelector == SelectorExpr(SelectorExpr(Ident(<<"q">>), <<"r">>), <<"H">>)

LeafExprs ==
    { Ident(<<"i", "n", "t">>), Ident(Foo),
      SelectorExpr(Ident(<<"q">>), <<"H">>),
      IndexExpr(Ident(Foo), Ident(<<"i", "n", "t">>)),
      NestedSelector,
      StructType(<<>>) }

KeyExprs == {Ident(<<"s", "t", "r", "i", "n", "g">>), Ident(Foo)}

\* the expressions with one more node around those of E
Wrap(E) ==
    LeafExprs
    \cup {ArrayType(e) : e \in E} \cup {StarExpr(e) : e \in E}
    \cup {ChanType(e) : e \in E} \cup {Ellipsis(e) : e \in E}
    \cup {StructType(<<AstField(<<<<"x">>>>, e)>>) : e \in E}
    \cup {MapType(k, e) : k \in KeyExprs, e \in E}

RECURSIVE ExprsUpTo(_)
ExprsUpTo(d) == IF d = 0 THEN LeafExprs ELSE Wrap(ExprsUpTo(d - 1))

InitField ==
    /\ exp \in ExprsUpTo(MaxDepth)
    /\ res = Returned(<<>>, <<>>)
    /\ fpc = "input"
    /\ p = NewClassParser
    /\ pc = "build"
    /\ history = <<>>
    /\ rendered = <<>>
    /\ options = EmptyMap

ResolveField ==
    /\ fpc = "input"
    /\ res' = getFieldType(exp, FieldImports, FieldPackage)
    /\ fpc' = "resolved"
    /\ UNCHANGED <<exp, buildVars, rendered, options>>

\* the type specification type X exp
FieldSpec(type) == [kind |-> "TypeSpec", Name |-> <<"X">>, Type |-> type]

\* processSpec handed the declaration type X exp in the package p of m
ProcessSpec ==
    /\ fpc = "input"
    /\ \E r \in {processSpec(parsePackage(p, <<"m">>, <<"p">>), FieldSpec(exp))} :
        /\ p' = (IF r.ok THEN r.p ELSE p)
        /\ fpc' = (IF r.ok THEN "declared" ELSE "panicked")
    /\ UNCHANGED <<exp, res, pc, history, rendered, options>>

NextField == ResolveField \/ ProcessSpec

SpecField == InitField /\ [][NextField]_vars

---------------------------------------------------------------------------
(* SpecBuild: NewClassDiagramWithOptions over the packages, imports and    *)
(* declarations the scanner hands over, one parse step at a time.          *)

\* ast nodes of declarations
TypeSpec(name, type) == [kind |-> "TypeSpec", Name |-> name, Type |-> type]
ValueSpec == [kind |-> "ValueSpec"]
GenDecl(specs) == [kind |-> "GenDecl", Specs |-> specs]
FuncDecl(recv, name, type) == [kind |-> "FuncDecl", Recv |-> recv, Name |-> name, Type |-> type]
ImportSpec(name, path) == [kind |-> "ImportSpec", Name |-> name, Path |-> path]
Package(base, name) == [kind |-> "Package", Base |-> base, Name |-> name]

TypeDecl(name, type) == GenDecl(<<TypeSpec(name, type)>>)
Method(recv, name, params, results) ==
    FuncDecl(<<AstField(<<<<"r">>>>, recv)>>, name, FuncType(params, results))

IntResult == <<AstField(<<>>, Ident(<<"i", "n", "t">>))>>
ErrorResult == <<AstField(<<>>, Ident(<<"e", "r", "r", "o", "r">>))>>
StringParam == <<AstField(<<<<"s">>>>, Ident(<<"s", "t", "r", "i", "n", "g">>))>>

\* type R struct { Base; X Foo; y *Bar }
DeclStructR ==
    TypeDecl(<<"R">>, StructType(<<AstField(<<>>, Ident(<<"B", "a", "s", "e">>)),
                                 AstField(<<<<"X">>>>, Ident(Foo)),
                                 AstField(<<<<"y">>>>, StarExpr(Ident(<<"B", "a", "r">>)))>>))
\* type I interface { A() int; B(s string) error }
DeclInterfaceI ==
    TypeDecl(<<"I">>, InterfaceType(<<AstField(<<<<"A">>>>, FuncType(<<>>, IntResult)),
                                    AstField(<<<<"B">>>>, FuncType(StringParam, ErrorResult))>>))
\* type R interface { A() int }: the name R declared a second time
DeclInterfaceR ==
    TypeDecl(<<"R">>, InterfaceType(<<AstField(<<<<"A">>>>, FuncType(<<>>, IntResult))>>))
\* func (r R) A() int
DeclMethodRA == Method(Ident(<<"R">>), <<"A">>, <<>>, IntResult)
\* func (r *R) B(s string) error
DeclMethodRB == Method(StarExpr(Ident(<<"R">>)), <<"B">>, StringParam, ErrorResult)
\* func (r R) B() error
DeclMethodRB0 == Method(Ident(<<"R">>), <<"B">>, <<>>, ErrorResult)
\* type T int
DeclAliasT == TypeDecl(<<"T">>, Ident(<<"i", "n", "t">>))
\* type T string: the name T declared a second time
DeclAliasT2 == TypeDecl(<<"T">>, Ident(<<"s", "t", "r", "i", "n", "g">>))
\* type J interface { I }
DeclInterfaceJ == TypeDecl(<<"J">>, InterfaceType(<<AstField(<<>>, Ident(<<"I">>))>>))
\* type G Foo[int]: a generic instantiation
DeclAliasG == TypeDecl(<<"G">>, IndexExpr(Ident(Foo), Ident(<<"i", "n", "t">>)))
\* type U []Foo
DeclAliasU == TypeDecl(<<"U">>, ArrayType(Ident(Foo)))
\* type V *Foo
DeclAliasV == TypeDecl(<<"V">>, StarExpr(Ident(Foo)))
\* type Z with a qualified reference whose qualifier is a qualified reference
DeclAliasZ == TypeDecl(<<"Z">>, NestedSelector)
\* func (r *L[T]) A() int: the receiver is a generic instantiation of L
DeclMethodLA ==
    Method(StarExpr(IndexExpr(Ident(<<"L">>), Ident(<<"T">>))), <<"A">>, <<>>, IntResult)
\* type W Foo
DeclAliasW == TypeDecl(<<"W">>, Ident(Foo))
\* type M map[Foo]Bar
DeclAliasM == TypeDecl(<<"M">>, MapType(Ident(Foo), Ident(<<"B", "a", "r">>)))
\* type K interface { q.H; A() int }
DeclInterfaceK ==
    TypeDecl(<<"K">>, InterfaceType(<<AstField(<<>>, SelectorExpr(Ident(<<"q">>), <<"H">>)),
                                    AstField(<<<<"A">>>>, FuncType(<<>>, IntResult))>>))
\* var x = 1
DeclVar == GenDecl(<<ValueSpec>>)
\* func f()
DeclFunc == FuncDecl(<<>>, <<"f">>, FuncType(<<>>, <<>>))

DeclPool ==
    { DeclStructR, DeclInterfaceI, DeclInterfaceR, DeclInterfaceJ, DeclMethodRA,
      DeclMethodRB, DeclMethodRB0, DeclAliasT, DeclAliasT2, DeclAliasU, DeclAliasV,
      DeclAliasZ, DeclAliasG, DeclVar, DeclFunc, DeclMethodLA, DeclAliasW, DeclAliasM,
      DeclInterfaceK }

\* import q "x/q"
ImportPool == {ImportSpec(<<"q">>, <<"x", "/", "q">>)}

\* the directory m/p holding package p
PackagePool == {Package(<<"m">>, <<"p">>)}

\* the option maps handed to NewClassDiagramWithOptions
NoOptions == EmptyMap
UnknownOption == 99
OptionMaps ==
    { NoOptions,
      (RenderAggregations :> BoolVal(TRUE)),
      (UnknownOption :> BoolVal(TRUE)),
      (RenderAggregations :> BoolVal(TRUE)) @@ (UnknownOption :> BoolVal(TRUE)),
      (RenderTitle :> BoolVal(TRUE)) }

InitBuild ==
    /\ p = NewClassParser
    /\ pc = "build"
    /\ history = <<>>
    /\ rendered = <<>>
    /\ options = EmptyMap
    /\ exp = Ident(Foo)
    /\ res = Returned(<<>>, <<>>)
    /\ fpc = "input"

NumPackages == Cardinality({i \in DOMAIN history : history[i].kind = "Package"})
NumDecls == Len(history) - NumPackages

\* parsePackage makes a namespace the current one
ParsePackage ==
    /\ pc = "build"
    /\ NumPackages < MaxPackages
    /\ \E pack \in PackagePool :
        /\ p' = parsePackage(p, pack.Base, pack.Name)
        /\ history' = Append(history, pack)
    /\ UNCHANGED <<pc, fieldVars, rendered, options>>

\* parsePackage hands an import of the current file to parseImports
ParseImports ==
    /\ pc = "build"
    /\ NumPackages > 0
    /\ NumDecls < MaxDecls
    /\ \E impt \in ImportPool :
        /\ p' = parseImports(p, impt)
        /\ history' = Append(history, impt)
    /\ UNCHANGED <<pc, fieldVars, rendered, options>>

\* parsePackage hands a declaration of the current file to parseFileDeclarations
ParseFileDeclarations ==
    /\ pc = "build"
    /\ NumPackages > 0
    /\ NumDecls < MaxDecls
    /\ \E d \in DeclPool : \E r \in {parseFileDeclarations(p, d)} :
        /\ p' = (IF r.ok THEN r.p ELSE p)
        /\ pc' = (IF r.ok THEN "build" ELSE "panic")
        /\ history' = Append(history, d)
    /\ UNCHANGED <<fieldVars, rendered, options>>

\* the end of NewClassDiagramWithOptions: the relationship resolver pass and
\* SetRenderingOptions, whose error makes it return no ClassParser
FinishBuild ==
    /\ pc = "build"
    /\ \E ro \in OptionMaps : \E order \in Orders(DOMAIN ro) :
       \E r \in {SetRenderingOptionsIn(ResolveRelationships(p), ro, order)} :
        /\ p' = r.p
        /\ pc' = (IF ~r.ok THEN "options panic" ELSE IF r.err THEN "failed" ELSE "built")
        /\ options' = ro
    /\ UNCHANGED <<history, fieldVars, rendered>>

NextBuild == ParsePackage \/ ParseImports \/ ParseFileDeclarations \/ FinishBuild

SpecBuild == InitBuild /\ [][NextBuild]_vars

---------------------------------------------------------------------------
(* Rendering: what both renderers use of package parser.                   *)

tab == <<" ", " ", " ", " ">>
NL == <<"\n">>

\* strings.Repeat(tab, depth)
RECURSIVE Tabs(_)
Tabs(depth) == IF depth = 0 THEN <<>> ELSE tab \o Tabs(depth - 1)

\* LineStringBuilder.WriteLineWithDepth: what it appends to the builder
WriteLineWithDepth(depth, str) == Tabs(depth) \o str \o NL

\* the text a builder holds after the writes of a loop, one text per iteration
Concat(texts) == JoinStrings(texts, <<>>)

\* WriteLineWithDepth(0, builder.String()) under the guard builder.Len() > 0
Section(text) == IF Len(text) > 0 THEN WriteLineWithDepth(0, text) ELSE <<>>

\* strings.TrimSpace on the bytes of the model
TrimSpace(s) == StrTrim(s, {" ", "\t", "\n", "\r"})

\* strings.ReplaceAll(s, "{}", ""): the occurrences are found left to right
RECURSIVE RemoveBraces(_)
RemoveBraces(s) ==
    IF Len(s) < 2 THEN s
    ELSE IF s[1] = "{" /\ s[2] = "}" THEN RemoveBraces(SubSeq(s, 3, Len(s)))
    ELSE <<s[1]>> \o RemoveBraces(Tail(s))

\* the key AliasSlice is sorted by: the name, then the aliased name
AliasKey(alias) == alias.Name \o <<" ">> \o alias.AliasOf

AliasWithKey(aliases, key) == CHOOSE a \in aliases : AliasKey(a) = key

AliasesInOrder(aliases, keys) == [i \in DOMAIN keys |-> AliasWithKey(aliases, keys[i])]

\* orderedAliases after sort.Sort: the aliases of AllAliases in AliasSlice order
OrderedAliases(q) ==
    AliasesInOrder({q.AllAliases[k] : k \in DOMAIN q.AllAliases},
                   SortedSeq({AliasKey(q.AllAliases[k]) : k \in DOMAIN q.AllAliases}))

\* the name renderAliases prints for an alias: the first segment and the
\* renamed remainder when AllRenamedStructs holds it, alias.Name otherwise
RenamedAliasName(q, name, split) ==
    IF /\ split[1] \in DOMAIN q.AllRenamedStructs
       /\ GenerateRenamedStructName(split[2]) \in DOMAIN q.AllRenamedStructs[split[1]]
    THEN split[1] \o Dot \o GenerateRenamedStructName(split[2])
    ELSE name

AliasName(q, alias) ==
    IF StrCount(alias.Name, ".") > 1
    THEN RenamedAliasName(q, alias.Name, SplitN2(alias.Name))
    ELSE alias.Name

\* c, or c behind the namespace GetPackageName gives it when it holds no "."
QualifiedBy(packageName, c) == packageName \o Dot \o c

QualifiedTarget(c, structure) ==
    IF ~StrContains(c, ".") THEN QualifiedBy(GetPackageName(c, structure), c) ELSE c

\* a connection label, or nothing without RenderConnectionLabels
Label(q, label) == IF q.RenderingOptions.ConnectionLabels THEN label ELSE <<>>

\* the lines of a sorted list, one WriteLineWithDepth(0, c) each
Lines(list) == Concat([i \in DOMAIN list |-> WriteLineWithDepth(0, list[i])])

\* the strings a range loop over a set formats, in some order it visits them
Formatted(keys, lineOf(_)) == [i \in DOMAIN keys |-> lineOf(keys[i])]

\* WriteLineWithDepth(0, builder.String()) under a rendering option
Optional(enabled, text) == IF enabled THEN WriteLineWithDepth(0, text) ELSE <<>>

\* the renderer in use and the colours randomcolor.GetRandomColorInHex may
\* return
Renderers == {"plantuml", "mermaid"}
Colors == {<<"#", "0", "0", "0", "0", "f", "f">>, <<"#", "f", "f", "0", "0", "0", "0">>}

\* updatePrivateAggregations through aggregationMap := structure.Aggregations:
\* the map written is the map of the Struct
updatePrivateAggregations(structure) ==
    [structure EXCEPT !.Aggregations = @ \cup structure.PrivateAggregations]

\* the Struct after renderAggregations
AfterRenderAggregations(q, structure) ==
    IF q.RenderingOptions.AggregatePrivateMembers
    THEN updatePrivateAggregations(structure) ELSE structure

\* the parser after a Render of either renderer: renderStructure has run on
\* every Struct
AfterRender(q) ==
    [q EXCEPT !.Structure =
        [pack \in DOMAIN @ |->
            [name \in DOMAIN @[pack] |->
                AfterRenderAggregations(q, @[pack][name])]]]

\* c, or c behind the namespace of the Struct when it holds no "."
ExtendsTarget(c, structure) ==
    IF ~StrContains(c, ".") THEN QualifiedBy(structure.PackageName, c) ELSE c

\* the access modifier of a member written to the private or public builder
AccessModifier(private) == IF private THEN <<"-">> ELSE <<"+">>

\* whether the loop writes the member called name to the private builder
\* (private = TRUE) or to the public one
WritesMember(q, name, private) ==
    IF IsLower(name[1]) THEN private /\ q.RenderingOptions.PrivateMembers ELSE ~private

---------------------------------------------------------------------------
(* The PlantUML renderer, package plantuml of render.go.                   *)

plantuml_implements == <<"\"", "i", "m", "p", "l", "e", "m", "e", "n", "t", "s", "\"">>
plantuml_extends == <<"\"", "e", "x", "t", "e", "n", "d", "s", "\"">>
plantuml_aggregates == <<"\"", "u", "s", "e", "s", "\"">>
plantuml_aliasOf == <<"\"", "a", "l", "i", "a", "s", " ", "o", "f", "\"">>
nodeSep == <<"s", "k", "i", "n", "p", "a", "r", "a", "m", " ", "n", "o", "d", "e", "s", "e", "p", " ", "5", "0", "0">>
ranskSep == <<"s", "k", "i", "n", "p", "a", "r", "a", "m", " ", "r", "a", "n", "k", "s", "e", "p", " ", "1", "5", "0", "0">>
aliasComplexNameComment == <<"'", "T", "h", "i", "s", " ", "c", "l", "a", "s", "s", " ", "w", "a", "s", " ", "c", "r", "e", "a", "t", "e", "d", " ", "s", "o", " ", "t", "h", "a", "t", " ", "w", "e", " ", "c", "a", "n", " ", "c", "o", "r", "r", "e", "c", "t", "l", "y", " ", "h", "a", "v", "e", " ", "a", "n", " ", "a", "l", "i", "a", "s", " ", "p", "o", "i", "n", "t", "i", "n", "g", " ", "t", "o", " ", "t", "h", "i", "s", " ", "n", "a", "m", "e", ".", " ", "S", "i", "n", "c", "e", " ", "i", "t", " ", "c", "o", "n", "t", "a", "i", "n", "s", " ", "d", "o", "t", "s", " ", "t", "h", "a", "t", " ", "c", "a", "n", " ", "b", "r", "e", "a", "k", " ", "n", "a", "m", "e", "s", "p", "a", "c", "e", "s">>

\* the places of a Render that call randomcolor.GetRandomColorInHex and
\* print its colour: renderCompositions, renderExtends and renderAggregationMap
\* for a Struct with such edges, renderAliases with aliases, each where the
\* rendering options let the lines into the text
StructSites(pack, name, st, ro) ==
    {<<pack, name, kind>> : kind \in
        {k \in {"Composition"} : ro.Compositions /\ st.Composition # {}}
        \cup {k \in {"Extends"} : ro.Implementations /\ st.Extends # {}}
        \cup {k \in {"Aggregations"} :
                 /\ ro.Aggregations
                 /\ \/ st.Aggregations # {}
                    \/ ro.AggregatePrivateMembers /\ st.PrivateAggregations # {}}}

ColorSites(q) ==
    UNION {UNION {StructSites(pack, name, q.Structure[pack][name], q.RenderingOptions) :
                     name \in DOMAIN q.Structure[pack]} :
              pack \in DOMAIN q.Structure}
    \cup {site \in {<<"Aliases">>} : q.RenderingOptions.Aliases /\ DOMAIN q.AllAliases # {}}

\* renderStructFields: what it writes to privateFields or to publicFields
plantuml_renderStructFields(q, structure, private) ==
    Concat([i \in DOMAIN structure.Fields |->
        IF WritesMember(q, structure.Fields[i].Name, private)
        THEN WriteLineWithDepth(2, AccessModifier(private) \o <<" ">>
                 \o structure.Fields[i].Name \o <<" ">> \o structure.Fields[i].Type)
        ELSE <<>>])

plantuml_parameterList(parameters) ==
    [i \in DOMAIN parameters |-> parameters[i].Name \o <<" ">> \o parameters[i].Type]

plantuml_returnValues(values) ==
    IF Len(values) = 0 THEN <<>>
    ELSE IF Len(values) = 1 THEN values[1]
    ELSE <<"(">> \o JoinStrings(values, <<",", " ">>) \o <<")">>

\* renderStructMethods: what it writes to privateMethods or to publicMethods
plantuml_renderStructMethods(q, structure, private) ==
    Concat([i \in DOMAIN structure.Functions |->
        IF WritesMember(q, structure.Functions[i].Name, private)
        THEN WriteLineWithDepth(2, AccessModifier(private) \o <<" ">>
                 \o structure.Functions[i].Name \o <<"(">>
                 \o JoinStrings(plantuml_parameterList(structure.Functions[i].Parameters),
                                <<",", " ">>)
                 \o <<")", " ">> \o plantuml_returnValues(structure.Functions[i].ReturnValues))
        ELSE <<>>])

plantuml_CompositionLine(q, structure, name, randColor, c) ==
    <<"\"">> \o QualifiedTarget(c, structure) \o <<"\"", " ", "*", "-", "[">> \o randColor \o <<"]", "-", " ">>
        \o Label(q, plantuml_extends) \o <<"\"">> \o structure.PackageName \o Dot \o name
        \o <<"\"">>

plantuml_renderCompositions(q, structure, name, randColor) ==
    Lines(SortStrings(
        Formatted(SortedSeq(structure.Composition),
                  LAMBDA c : plantuml_CompositionLine(q, structure, name, randColor, c))))

plantuml_ExtendsLine(q, structure, name, randColor, c) ==
    <<"\"">> \o ExtendsTarget(c, structure) \o <<"\"", " ", "<", "|", "-", "[">> \o randColor \o <<"]", "-", " ">>
        \o Label(q, plantuml_implements) \o <<"\"">> \o structure.PackageName \o Dot \o name
        \o <<"\"">>

plantuml_renderExtends(q, structure, name, randColor) ==
    Lines(SortStrings(
        Formatted(SortedSeq(structure.Extends),
                  LAMBDA c : plantuml_ExtendsLine(q, structure, name, randColor, c))))

\* one iteration of the loop of renderAggregationMap on the qualified target a
plantuml_AggregationLine(q, structure, name, randColor, a) ==
    IF GetPackageName(a, structure) # BuiltinPackageName
    THEN WriteLineWithDepth(0,
             <<"\"">> \o structure.PackageName \o Dot \o name \o <<"\"">>
                 \o Label(q, plantuml_aggregates) \o <<" ", "o", "-", "[">> \o randColor \o <<"]", "-", " ", "\"">>
                 \o a \o <<"\"">>)
    ELSE <<>>

plantuml_renderAggregationMap(q, aggregationMap, structure, name, randColor) ==
    Concat(Formatted(SortedSeq(aggregationMap),
                     LAMBDA a : plantuml_AggregationLine(q, structure, name, randColor,
                                                         QualifiedTarget(a, structure))))

plantuml_renderAggregations(q, structure, name, randColor) ==
    plantuml_renderAggregationMap(q,
        AfterRenderAggregations(q, structure).Aggregations, structure, name,
        randColor)

\* the colour drawn at a site, for the sites that print one
ColorAt(colors, site) == IF site \in DOMAIN colors THEN colors[site] ELSE <<>>

plantuml_sType(structure) ==
    CASE structure.Type = kClass -> <<"<", "<", " ", "(", "S", ",", "A", "q", "u", "a", "m", "a", "r", "i", "n", "e", ")", " ", ">", ">">>
      [] structure.Type = kAlias -> <<"<", "<", " ", "(", "T", ",", " ", "#", "F", "F", "7", "7", "0", "0", ")", " ", ">", ">", " ">>
      [] OTHER -> <<>>

plantuml_renderStructureType(structure) ==
    IF structure.Type = kAlias THEN kClass ELSE structure.Type

\* renderStructure: what it writes to str
plantuml_renderStructure(q, structure, name) ==
    WriteLineWithDepth(1, plantuml_renderStructureType(structure) \o <<" ">> \o name
                              \o <<" ">> \o plantuml_sType(structure) \o <<" ", "{">>)
        \o Section(plantuml_renderStructFields(q, structure, TRUE))
        \o Section(plantuml_renderStructFields(q, structure, FALSE))
        \o Section(plantuml_renderStructMethods(q, structure, TRUE))
        \o Section(plantuml_renderStructMethods(q, structure, FALSE))
        \o WriteLineWithDepth(1, <<"}">>)

\* the class blocks renderStructures writes for the renamed structs of pack
plantuml_RenamedStructBlock(name, tempName) ==
    WriteLineWithDepth(1, <<"c", "l", "a", "s", "s", " ", "\"">> \o name \o <<"\"", " ", "a", "s", " ">> \o tempName \o <<" ", "{">>)
        \o WriteLineWithDepth(2, aliasComplexNameComment)
        \o WriteLineWithDepth(1, <<"}">>)

plantuml_RenamedStructs(renamed) ==
    Concat(Formatted(SortedSeq(DOMAIN renamed),
                     LAMBDA tempName : plantuml_RenamedStructBlock(renamed[tempName], tempName)))

plantuml_StructuresOf(q, pack, structures, names, colors) ==
    WriteLineWithDepth(0, <<"n", "a", "m", "e", "s", "p", "a", "c", "e", " ">> \o pack \o <<" ", "{">>)
        \o Concat(Formatted(names,
               LAMBDA name : plantuml_renderStructure(q, structures[name], name)))
        \o plantuml_RenamedStructs(InnerMap(q.AllRenamedStructs, pack))
        \o WriteLineWithDepth(0, <<"}">>)
        \o Optional(q.RenderingOptions.Compositions,
               Concat(Formatted(names,
                   LAMBDA name : plantuml_renderCompositions(q, structures[name], name,
                                     ColorAt(colors, <<pack, name, "Composition">>)))))
        \o Optional(q.RenderingOptions.Implementations,
               Concat(Formatted(names,
                   LAMBDA name : plantuml_renderExtends(q, structures[name], name,
                                     ColorAt(colors, <<pack, name, "Extends">>)))))
        \o Optional(q.RenderingOptions.Aggregations,
               Concat(Formatted(names,
                   LAMBDA name : plantuml_renderAggregations(q, structures[name], name,
                                     ColorAt(colors, <<pack, name, "Aggregations">>)))))

\* renderStructures without sort.Strings(names): the names as a range over
\* the map may give them, here in descending order
Reversed(list) == [i \in DOMAIN list |-> list[Len(list) + 1 - i]]

plantuml_renderStructuresUnsorted(q, pack, structures, colors) ==
    IF DOMAIN structures = {} THEN <<>>
    ELSE plantuml_StructuresOf(q, pack, structures, Reversed(SortedSeq(DOMAIN structures)),
                               colors)

plantuml_renderStructures(q, pack, structures, colors) ==
    IF DOMAIN structures = {} THEN <<>>
    ELSE plantuml_StructuresOf(q, pack, structures, SortedSeq(DOMAIN structures), colors)

plantuml_AliasLine(q, alias, randColor) ==
    WriteLineWithDepth(0,
        <<"\"">> \o AliasName(q, alias) \o <<"\"", " ", "#", ".", "[">> \o randColor \o <<"]", ".", " ">>
            \o Label(q, plantuml_aliasOf) \o <<"\"">> \o alias.AliasOf \o <<"\"">>)

plantuml_renderAliases(q, randColor) ==
    Concat(Formatted(OrderedAliases(q), LAMBDA alias : plantuml_AliasLine(q, alias, randColor)))

plantuml_Title(title) ==
    IF title # <<>> THEN WriteLineWithDepth(0, <<"t", "i", "t", "l", "e", " ">> \o title) ELSE <<>>

plantuml_Legend(note) ==
    IF note # <<>>
    THEN WriteLineWithDepth(0, <<"l", "e", "g", "e", "n", "d">>) \o WriteLineWithDepth(0, note)
             \o WriteLineWithDepth(0, <<"e", "n", "d", " ", "l", "e", "g", "e", "n", "d">>)
    ELSE <<>>

\* Render with the colours the calls of randomcolor.GetRandomColorInHex gave
plantuml_Render(q, colors) ==
    WriteLineWithDepth(0, <<"@", "s", "t", "a", "r", "t", "u", "m", "l">>)
        \o WriteLineWithDepth(0, nodeSep)
        \o WriteLineWithDepth(0, ranskSep)
        \o plantuml_Title(q.RenderingOptions.Title)
        \o plantuml_Legend(TrimSpace(q.RenderingOptions.Notes))
        \o Concat(Formatted(SortedSeq(DOMAIN q.Structure),
               LAMBDA pack : plantuml_renderStructures(q, pack, q.Structure[pack], colors)))
        \o (IF q.RenderingOptions.Aliases
            THEN plantuml_renderAliases(q, ColorAt(colors, <<"Aliases">>)) ELSE <<>>)
        \o (IF ~q.RenderingOptions.Fields
            THEN WriteLineWithDepth(0, <<"h", "i", "d", "e", " ", "f", "i", "e", "l", "d", "s">>) ELSE <<>>)
        \o (IF ~q.RenderingOptions.Methods
            THEN WriteLineWithDepth(0, <<"h", "i", "d", "e", " ", "m", "e", "t", "h", "o", "d", "s">>) ELSE <<>>)
        \o WriteLineWithDepth(0, <<"@", "e", "n", "d", "u", "m", "l">>)

---------------------------------------------------------------------------
(* The Mermaid renderer, package mermaid of render.go.                     *)

mermaid_extends == <<"I", "n", "h", "e", "r", "i", "t", "a", "n", "c", "e">>
mermaid_implements == <<"R", "e", "a", "l", "i", "z", "a", "t", "i", "o", "n">>
mermaid_aggregates == <<"A", "g", "g", "r", "e", "g", "a", "t", "i", "o", "n">>
mermaid_aliasOf == <<"A", "l", "i", "a", "s">>

underscore(val) == ReplaceAllChar(val, ".", "_")

\* renderStructFields: what it writes to privateFields or to publicFields
mermaid_renderStructFields(q, structure, private) ==
    Concat([i \in DOMAIN structure.Fields |->
        IF WritesMember(q, structure.Fields[i].Name, private)
        THEN WriteLineWithDepth(2, AccessModifier(private) \o structure.Fields[i].Name
                 \o <<" ">> \o RemoveBraces(underscore(structure.Fields[i].Type)))
        ELSE <<>>])

mermaid_parameterList(parameters) ==
    [i \in DOMAIN parameters |-> parameters[i].Name \o <<" ">> \o underscore(parameters[i].Type)]

mermaid_returnValues(values) ==
    IF Len(values) = 0 THEN <<>>
    ELSE IF Len(values) = 1 THEN underscore(values[1])
    ELSE <<"(">> \o underscore(JoinStrings(values, <<",", " ">>)) \o <<")">>

\* renderStructMethods: what it writes to privateMethods or to publicMethods
mermaid_renderStructMethods(q, structure, private) ==
    Concat([i \in DOMAIN structure.Functions |->
        IF WritesMember(q, structure.Functions[i].Name, private)
        THEN WriteLineWithDepth(2, AccessModifier(private)
                 \o structure.Functions[i].Name \o <<"(">>
                 \o JoinStrings(mermaid_parameterList(structure.Functions[i].Parameters),
                                <<",", " ">>)
                 \o <<")", " ">> \o mermaid_returnValues(structure.Functions[i].ReturnValues))
        ELSE <<>>])

mermaid_CompositionLine(q, structure, name, c) ==
    underscore(QualifiedTarget(c, structure)) \o <<" ", "-", "-", "|", ">", " ">>
        \o underscore(structure.PackageName) \o <<"_">> \o name \o <<" ", ":", " ">>
        \o Label(q, mermaid_extends)

mermaid_renderCompositions(q, structure, name) ==
    Lines(SortStrings(
        Formatted(SortedSeq(structure.Composition),
                  LAMBDA c : mermaid_CompositionLine(q, structure, name, c))))

mermaid_ExtendsLine(q, structure, name, c) ==
    underscore(ExtendsTarget(c, structure)) \o <<" ", "<", "|", ".", ".", " ">>
        \o underscore(structure.PackageName) \o <<"_">> \o name \o <<" ", ":", " ">>
        \o Label(q, mermaid_implements)

mermaid_renderExtends(q, structure, name) ==
    Lines(SortStrings(
        Formatted(SortedSeq(structure.Extends),
                  LAMBDA c : mermaid_ExtendsLine(q, structure, name, c))))

\* one iteration of the loop of renderAggregationMap on the qualified target a
mermaid_AggregationLine(q, structure, name, a) ==
    IF GetPackageName(a, structure) # BuiltinPackageName
    THEN WriteLineWithDepth(0,
             underscore(structure.PackageName) \o <<"_">> \o name \o <<" ", "-", "-", "o", " ">>
                 \o underscore(a) \o <<" ", ":", " ">> \o Label(q, mermaid_aggregates))
    ELSE <<>>

mermaid_renderAggregationMap(q, aggregationMap, structure, name) ==
    Concat(Formatted(SortedSeq(aggregationMap),
                     LAMBDA a : mermaid_AggregationLine(q, structure, name,
                                                        QualifiedTarget(a, structure))))

mermaid_renderAggregations(q, structure, name) ==
    mermaid_renderAggregationMap(q,
        AfterRenderAggregations(q, structure).Aggregations, structure, name)

mermaid_sType(structure) ==
    CASE structure.Type = kInterface -> <<"<", "<", "i", "n", "t", "e", "r", "f", "a", "c", "e", ">", ">">>
      [] structure.Type = kClass -> <<"<", "<", "c", "l", "a", "s", "s", ">", ">">>
      [] structure.Type = kAlias -> <<"<", "<", "a", "l", "i", "a", "s", ">", ">", " ">>
      [] OTHER -> <<>>

mermaid_renderStructureType(structure) ==
    IF structure.Type \in {kInterface, kAlias} THEN kClass ELSE structure.Type

\* renderStructure: what it writes to str
mermaid_renderStructure(q, structure, pack, name) ==
    WriteLineWithDepth(1, mermaid_renderStructureType(structure) \o <<" ">>
                              \o underscore(pack \o <<"_">> \o name) \o <<" ", "{", " ">>
                              \o mermaid_sType(structure))
        \o Section(mermaid_renderStructFields(q, structure, TRUE))
        \o Section(mermaid_renderStructFields(q, structure, FALSE))
        \o Section(mermaid_renderStructMethods(q, structure, TRUE))
        \o Section(mermaid_renderStructMethods(q, structure, FALSE))
        \o WriteLineWithDepth(1, <<"}">>)

mermaid_StructuresOf(q, pack, structures, names) ==
    Concat(Formatted(names,
        LAMBDA name : mermaid_renderStructure(q, structures[name], pack, name)))
        \o Optional(q.RenderingOptions.Compositions,
               Concat(Formatted(names,
                   LAMBDA name : mermaid_renderCompositions(q, structures[name], name))))
        \o Optional(q.RenderingOptions.Implementations,
               Concat(Formatted(names,
                   LAMBDA name : mermaid_renderExtends(q, structures[name], name))))
        \o Optional(q.RenderingOptions.Aggregations,
               Concat(Formatted(names,
                   LAMBDA name : mermaid_renderAggregations(q, structures[name], name))))

mermaid_renderStructures(q, pack, structures) ==
    IF DOMAIN structures = {} THEN <<>>
    ELSE mermaid_StructuresOf(q, pack, structures, SortedSeq(DOMAIN structures))

mermaid_AliasLine(q, alias) ==
    WriteLineWithDepth(0,
        underscore(AliasName(q, alias)) \o <<" ", ".", ".", " ">> \o underscore(alias.AliasOf)
            \o <<" ", ":", " ">> \o Label(q, mermaid_aliasOf))

mermaid_renderAliases(q) ==
    Concat(Formatted(OrderedAliases(q), LAMBDA alias : mermaid_AliasLine(q, alias)))

mermaid_Render(q) ==
    WriteLineWithDepth(0, <<"c", "l", "a", "s", "s", "D", "i", "a", "g", "r", "a", "m">>)
        \o Concat(Formatted(SortedSeq(DOMAIN q.Structure),
               LAMBDA pack : mermaid_renderStructures(q, pack, q.Structure[pack])))
        \o (IF q.RenderingOptions.Aliases THEN mermaid_renderAliases(q) ELSE <<>>)

---------------------------------------------------------------------------
(* SpecRender: SetRenderingOptions and Render, with either renderer, called *)
(* on a parser NewClassDiagramWithOptions has built.                       *)

ReplayEvent(q, ev) ==
    CASE ev.kind = "Package" -> parsePackage(q, ev.Base, ev.Name)
      [] ev.kind = "ImportSpec" -> parseImports(q, ev)
      [] OTHER -> parseFileDeclarations(q, ev).p

\* the parser after parsePackage has handed over the events, in order: each
\* event is handled on the parser the one before it left
RECURSIVE Replay(_, _)
Replay(q, events) ==
    IF events = <<>> THEN q
    ELSE CHOOSE r \in {Replay(next, Tail(events)) : next \in {ReplayEvent(q, Head(events))}} :
             TRUE

\* the parser of NewClassDiagramWithOptions after the relationship resolver
\* pass on the events
Built(events) == ResolveRelationships(Replay(NewClassParser, events))

\* package p of m: the struct R with a composition, an aggregation and a
\* private aggregation, its two methods, the interface I it implements, and
\* the alias U
EdgesInput ==
    <<Package(<<"m">>, <<"p">>), DeclStructR, DeclMethodRA, DeclMethodRB, DeclInterfaceI,
      DeclAliasU>>

\* package p of m: the interface I alone, a model without edges
NoEdgesInput == <<Package(<<"m">>, <<"p">>), DeclInterfaceI>>

RenderInputs == {EdgesInput, NoEdgesInput}

\* the option maps handed to SetRenderingOptions after the build
RenderOptionMaps ==
    { (AggregatePrivateMembers :> BoolVal(TRUE)),
      (AggregatePrivateMembers :> BoolVal(FALSE)),
      (RenderAggregations :> BoolVal(TRUE)),
      (RenderAggregations :> BoolVal(TRUE)) @@ (UnknownOption :> BoolVal(TRUE)) }

\* the option maps NewClassDiagramWithOptions is handed with the build
BuiltOptionMaps ==
    { NoOptions,
      (RenderAggregations :> BoolVal(TRUE)) @@ (AggregatePrivateMembers :> BoolVal(TRUE)) }

InitRender ==
    /\ history \in RenderInputs
    /\ options \in BuiltOptionMaps
    /\ \E order \in Orders(DOMAIN options) :
           p = SetRenderingOptionsIn(Built(history), options, order).p
    /\ pc = "built"
    /\ rendered = <<>>
    /\ exp = Ident(Foo)
    /\ res = Returned(<<>>, <<>>)
    /\ fpc = "input"

\* a call on the built parser q and what it returned: the text of a Render,
\* the error of SetRenderingOptions or nothing for nil
Call(name, renderer, q, text) ==
    [call |-> name, renderer |-> renderer, before |-> q, text |-> text]

\* the error SetRenderingOptions returns for a key it does not recognize
InvalidOption == <<"I", "n", "v", "a", "l", "i", "d", " ", "R", "e", "n", "d", "e", "r", "i", "n", "g", " ", "o", "p", "t", "i", "o", "n">>

\* the caller sets rendering options on the built parser
SetRenderingOptions ==
    /\ pc = "built"
    /\ Len(rendered) < MaxCalls
    /\ \E ro \in RenderOptionMaps : \E order \in Orders(DOMAIN ro) :
       \E r \in {SetRenderingOptionsIn(p, ro, order)} :
        /\ p' = r.p
        /\ pc' = (IF r.ok THEN "built" ELSE "options panic")
        /\ rendered' = Append(rendered, Call("SetRenderingOptions", "", p,
                                              IF r.err THEN InvalidOption ELSE <<>>))
        /\ options' = ro
    /\ UNCHANGED <<history, fieldVars>>

\* Render of the PlantUML renderer: every call of GetRandomColorInHex draws
\* some colour
RenderPlantUML ==
    /\ pc = "built"
    /\ Len(rendered) < MaxCalls
    /\ \E colors \in [ColorSites(p) -> Colors] :
        rendered' = Append(rendered, Call("Render", "plantuml", p, plantuml_Render(p, colors)))
    /\ p' = AfterRender(p)
    /\ UNCHANGED <<pc, history, fieldVars, options>>

\* Render of the Mermaid renderer
RenderMermaid ==
    /\ pc = "built"
    /\ Len(rendered) < MaxCalls
    /\ rendered' = Append(rendered, Call("Render", "mermaid", p, mermaid_Render(p)))
    /\ p' = AfterRender(p)
    /\ UNCHANGED <<pc, history, fieldVars, options>>

NextRender == SetRenderingOptions \/ RenderPlantUML \/ RenderMermaid

SpecRender == InitRender /\ [][NextRender]_vars

---------------------------------------------------------------------------
(* SpecDocument: one Render, with either renderer, of a model of two       *)
(* namespaces built under several option maps, after the caller of the     *)
(* library may have written one name into the Aggregations map of a Struct. *)

\* func (r R) c() int
DeclMethodRc == Method(Ident(<<"R">>), <<"c">>, <<>>, IntResult)

\* type S struct { Foo; Bar; X q.H; Y q2.H; n int }
DeclStructS ==
    TypeDecl(<<"S">>, StructType(<<AstField(<<>>, Ident(Foo)),
                                 AstField(<<>>, Ident(<<"B", "a", "r">>)),
                                 AstField(<<<<"X">>>>, SelectorExpr(Ident(<<"q">>), <<"H">>)),
                                 AstField(<<<<"Y">>>>, SelectorExpr(Ident(<<"q", "2">>), <<"H">>)),
                                 AstField(<<<<"n">>>>, Ident(<<"i", "n", "t">>))>>))

\* package p of m: the struct R with its methods A, B and c, the interface I
\* it implements, the struct S with two compositions and two aggregations,
\* and the alias U; then package a of m: the alias T
TwoNamespacesInput ==
    <<Package(<<"m">>, <<"p">>), DeclStructR, DeclMethodRA, DeclMethodRB, DeclMethodRc,
      DeclInterfaceI, DeclStructS, DeclAliasU,
      Package(<<"m">>, <<"a">>), DeclAliasT>>

DocumentInputs == {EdgesInput, TwoNamespacesInput}

\* the option maps NewClassDiagramWithOptions is handed with the build
DocumentOptionMaps ==
    { NoOptions,
      (RenderAggregations :> BoolVal(TRUE)) @@ (RenderPrivateMembers :> BoolVal(TRUE)),
      (RenderFields :> BoolVal(FALSE)) @@ (RenderPrivateMembers :> BoolVal(TRUE)),
      (RenderMethods :> BoolVal(FALSE)) @@ (RenderPrivateMembers :> BoolVal(TRUE)) }

InitDocument ==
    /\ history \in DocumentInputs
    /\ options \in DocumentOptionMaps
    /\ \E order \in Orders(DOMAIN options) :
           p = SetRenderingOptionsIn(Built(history), options, order).p
    /\ pc = "built"
    /\ rendered = <<>>
    /\ exp = Ident(Foo)
    /\ res = Returned(<<>>, <<>>)
    /\ fpc = "input"

\* the names the caller writes: a builtin primitive and a name of the package
WrittenNames == {<<"i", "n", "t">>, Foo}

\* the caller writes a name into the exported Aggregations map of a record
\* Struct of the built parser
WriteAggregation ==
    /\ pc = "built"
    /\ rendered = <<>>
    /\ \E e \in {x \in Entries(p) : EntryOf(p, x).Type = kClass} : \E a \in WrittenNames :
        /\ p' = [p EXCEPT !.Structure[e[1]][e[2]].Aggregations = @ \cup {a}]
        /\ rendered' = <<Call("Aggregations", "", p, a)>>
    /\ UNCHANGED <<pc, history, fieldVars, options>>

\* no Render has been called yet
NotRendered == \A i \in DOMAIN rendered : rendered[i].call # "Render"

\* the one Render of the PlantUML renderer
DocumentPlantUML == NotRendered /\ RenderPlantUML

\* the one Render of the Mermaid renderer
DocumentMermaid == NotRendered /\ RenderMermaid

NextDocument == WriteAggregation \/ DocumentPlantUML \/ DocumentMermaid

SpecDocument == InitDocument /\ [][NextDocument]_vars

---------------------------------------------------------------------------
(* Claims about the type expression resolver.                              *)

IsWrapper(e) == e.kind \in {"StarExpr", "ArrayType", "Ellipsis", "ChanType"}

WrappedExpr(e) ==
    CASE e.kind = "StarExpr" -> e.X
      [] e.kind = "ArrayType" -> e.Elt
      [] e.kind = "Ellipsis" -> e.Elt
      [] e.kind = "ChanType" -> e.Value

WrapperMarker(e) ==
    CASE e.kind = "StarExpr" -> <<"*">>
      [] e.kind = "ArrayType" -> <<"[", "]">>
      [] e.kind = "Ellipsis" -> <<".", ".", ".">>
      [] e.kind = "ChanType" -> chanOpen

\* C7: for pointer-to-T, slice-of-T, variadic-of-T and channel-of-T the
\* display is T's display behind the shape's marker and the dependency list
\* is T's dependency list, for every inner expression T.
C7_WrapperKeepsDependencies ==
    (fpc = "resolved" /\ IsWrapper(exp) /\ res.ok) =>
        LET inner == getFieldType(WrappedExpr(exp), FieldImports, FieldPackage) IN
        /\ res.t = WrapperMarker(exp) \o inner.t
        /\ res.f = inner.f

\* the variadic case of C7 has been resolved
C7_Reached ==
    fpc = "resolved" /\ exp = Ellipsis(Ident(Foo)) /\ res.ok

\* pointer, slice, map and channel wrappers around Foo, map keys primitive
RECURSIVE NestsFoo(_)
NestsFoo(e) ==
    CASE e.kind = "Ident" -> e.Name = Foo
      [] e.kind \in {"StarExpr", "ArrayType", "ChanType"} -> NestsFoo(WrappedExpr(e))
      [] e.kind = "MapType" ->
             e.Key.kind = "Ident" /\ isPrimitive(e.Key) /\ NestsFoo(e.Value)
      [] OTHER -> FALSE

HasPrefix(s, pre) == Len(pre) <= Len(s) /\ SubSeq(s, 1, Len(pre)) = pre

DropPrefix(s, pre) == SubSeq(s, Len(pre) + 1, Len(s))

\* d reads as one marker per wrapper of e, outermost first, then Foo's
\* placeholder-qualified name
RECURSIVE MarkersInOrder(_, _)
MarkersInOrder(d, e) ==
    CASE e.kind = "Ident" -> d = packageConstant \o Dot \o Foo
      [] e.kind \in {"StarExpr", "ArrayType", "ChanType"} ->
             /\ HasPrefix(d, WrapperMarker(e))
             /\ MarkersInOrder(DropPrefix(d, WrapperMarker(e)), WrappedExpr(e))
      [] e.kind = "MapType" ->
             LET open == mapOpen \o e.Key.Name \o <<"]">> IN
             HasPrefix(d, open) /\ MarkersInOrder(DropPrefix(d, open), e.Value)

RECURSIVE CountKind(_, _)
CountKind(e, kind) ==
    (IF e.kind = kind THEN 1 ELSE 0) +
    (CASE e.kind \in {"StarExpr", "ArrayType", "ChanType"} -> CountKind(WrappedExpr(e), kind)
       [] e.kind = "MapType" -> CountKind(e.Value, kind)
       [] OTHER -> 0)

CountSub(s, sub) == Cardinality({i \in DOMAIN s : OccursAt(s, sub, i)})

\* C8: for pointer, slice, map and channel wrappers nested around Foo (map
\* keys primitive) the display holds exactly one marker per wrapper, in the
\* nesting order, and ends in Foo's placeholder-qualified name, the
\* dependencies are exactly {Foo}; and the dependencies of any map are the
\* union of those of its key and of its value.
C8_NestedMarkersAndDependencies ==
    fpc = "resolved" =>
        /\ NestsFoo(exp) =>
            /\ res.ok
            /\ MarkersInOrder(res.t, exp)
            /\ CountSub(res.t, <<"*">>) = CountKind(exp, "StarExpr")
            /\ CountSub(res.t, <<"[", "]">>) = CountKind(exp, "ArrayType")
            /\ CountSub(res.t, <<"m", "a", "p", "<", "/", "f", "o", "n", "t", ">", "[">>) = CountKind(exp, "MapType")
            /\ CountSub(res.t, <<"c", "h", "a", "n", "<", "/", "f", "o", "n", "t", ">", " ">>) = CountKind(exp, "ChanType")
            /\ Range(res.f) = {packageConstant \o Dot \o Foo}
        /\ (exp.kind = "MapType" /\ res.ok) =>
            Range(res.f) =
                Range(getFieldType(exp.Key, FieldImports, FieldPackage).f)
                \cup Range(getFieldType(exp.Value, FieldImports, FieldPackage).f)

\* pointer-to-slice-of-map<string,Foo> has been resolved
C8_Reached ==
    /\ fpc = "resolved"
    /\ exp = StarExpr(ArrayType(MapType(Ident(<<"s", "t", "r", "i", "n", "g">>), Ident(Foo))))
    /\ res.f = <<packageConstant \o Dot \o Foo>>

---------------------------------------------------------------------------
(* Claims about the model builder and the relationship resolver.           *)

\* C3: once the kind of a registry entry is non-empty, no later step of the
\* model builder changes it.
C3_KindAssignedOnce ==
    [][\A e \in Entries(p) :
           EntryOf(p, e).Type # <<>> =>
               /\ e \in Entries(p')
               /\ EntryOf(p', e).Type = EntryOf(p, e).Type]_vars

\* the declaration handed over last
LastDecl == history[Len(history)]

\* the record R declared as a struct, then the name R declared as an interface
C3_Redeclared ==
    /\ pc = "build"
    /\ Len(history) = 3
    /\ history[2] = DeclStructR
    /\ history[3] = DeclInterfaceR
    /\ <<FieldPackage, <<"R">>>> \in Entries(p)

\* what C4 compares of a model: the classifier keys, the kind and the
\* relationship sets of each classifier, and the three tables
ModelView(q) ==
    [entries |-> [e \in Entries(q) |->
                     [Type |-> EntryOf(q, e).Type,
                      Composition |-> EntryOf(q, e).Composition,
                      Aggregations |-> EntryOf(q, e).Aggregations,
                      PrivateAggregations |-> EntryOf(q, e).PrivateAggregations,
                      Extends |-> EntryOf(q, e).Extends]],
     AllStructs |-> q.AllStructs,
     AllInterfaces |-> q.AllInterfaces,
     AllAliases |-> q.AllAliases]

\* the permutations of the declarations of a history that starts with its
\* package
Reorderings(events) ==
    {[i \in DOMAIN events |-> IF i = 1 THEN events[1] ELSE events[o[i - 1] + 1]] :
        o \in Orders(1..(Len(events) - 1))}

OnlyDeclarations(events) ==
    /\ events # <<>>
    /\ events[1].kind = "Package"
    /\ \A i \in 2..Len(events) : events[i].kind \in {"GenDecl", "FuncDecl"}

\* C4: every permutation of the declarations of one namespace yields the same
\* classifier keys, kinds, relationship sets and AllStructs, AllInterfaces and
\* AllAliases tables after the build.
C4_OrderIndependent ==
    (pc = "built" /\ OnlyDeclarations(history)) =>
        \A events \in Reorderings(history) :
            ModelView(ResolveRelationships(Replay(NewClassParser, events))) = ModelView(p)

\* a build of two declarations has ended
C4_Reached ==
    /\ pc = "built"
    /\ OnlyDeclarations(history)
    /\ Len(history) = 3
    /\ history[2] # history[3]

Records(q) == {e \in Entries(q) : EntryOf(q, e).Type = kClass}
Interfaces(q) == {e \in Entries(q) : EntryOf(q, e).Type = kInterface}

QualifiedName(e) == e[1] \o Dot \o e[2]

\* R declares a method with the name, the ordered parameter types and the
\* ordered return types of every signature the interface requires
Satisfies(q, r, i) ==
    \A f1 \in RequiredMethods(q, QualifiedName(i)) :
        \E k \in DOMAIN EntryOf(q, r).Functions :
            LET f2 == EntryOf(q, r).Functions[k] IN
            /\ f2.Name = f1.Name
            /\ [n \in DOMAIN f2.Parameters |-> f2.Parameters[n].Type]
                   = [n \in DOMAIN f1.Parameters |-> f1.Parameters[n].Type]
            /\ f2.ReturnValues = f1.ReturnValues

\* C5: after the build, for every record R and every interface I other than
\* R, I's qualified name is in R's Extends exactly if R declares every method
\* signature of I and of the interfaces I embeds transitively.
C5_ExtendsIffSatisfies ==
    pc = "built" =>
        \A r \in Records(p) : \A i \in Interfaces(p) :
            r # i => (QualifiedName(i) \in EntryOf(p, r).Extends <=> Satisfies(p, r, i))

\* the example of C5: I = {A() int, B(string) error} and a record with
\* exactly those two methods
C5_Reached ==
    /\ pc = "built"
    /\ <<FieldPackage, <<"I">>>> \in Interfaces(p)
    /\ <<FieldPackage, <<"R">>>> \in Records(p)
    /\ Len(EntryOf(p, <<FieldPackage, <<"R">>>>).Functions) = 2
    /\ Satisfies(p, <<FieldPackage, <<"R">>>>, <<FieldPackage, <<"I">>>>)

\* C6: every classifier whose kind is record when the model builder pass
\* ends, one that is a record only through a method declaration included, is
\* found by the resolver pass and checked against every interface.
C6_EveryRecordExamined ==
    pc = "build" =>
        \A r \in Records(p) :
            [found |-> TRUE, pack |-> r[1], name |-> r[2]] \in ExaminedStructs(p)

\* a record that exists only through a method declaration
C6_Reached ==
    /\ pc = "build"
    /\ Len(history) = 2
    /\ history[2] = DeclMethodRA
    /\ <<FieldPackage, <<"R">>>> \in Records(p)

RenamedAliases(q) ==
    {a \in {q.AllAliases[k] : k \in DOMAIN q.AllAliases} : StrCount(a.Name, ".") > 1}

\* C10: for every registered alias whose underlying name holds more than one
\* ".", the synthetic identifier holds only characters of [a-zA-Z0-9] and
\* AllRenamedStructs maps it, under the alias's first name segment, to the
\* alias's original dotted remainder.
C10_ReverseLookupRecoversName ==
    \A a \in RenamedAliases(p) :
        LET pack == SplitN2(a.Name)
            renamedClass == GenerateRenamedStructName(pack[2])
        IN  /\ \A i \in DOMAIN renamedClass : IsAlnum(renamedClass[i])
            /\ pack[1] \in DOMAIN p.AllRenamedStructs
            /\ renamedClass \in DOMAIN p.AllRenamedStructs[pack[1]]
            /\ p.AllRenamedStructs[pack[1]][renamedClass] = pack[2]

\* two aliases are registered under the same first segment
C10_Reached ==
    /\ pc = "build"
    /\ Cardinality(RenamedAliases(p)) = 2

---------------------------------------------------------------------------
(* Claims about the renderers.                                             *)

Renders == {i \in DOMAIN rendered : rendered[i].call = "Render"}

\* a model that holds a composition, a structural-extension, an aggregation
\* and an alias edge
HasEveryEdge(q) ==
    /\ \E e \in Entries(q) :
           /\ EntryOf(q, e).Composition # {}
           /\ EntryOf(q, e).Extends # {}
           /\ EntryOf(q, e).Aggregations # {}
    /\ DOMAIN q.AllAliases # {}

\* C1: two Render calls of one renderer on the same model with the same
\* options return the same text, for PlantUML and for Mermaid, for models
\* with composition, structural-extension, aggregation and alias edges too.
C1_RenderDeterministic ==
    \A i \in Renders : \A j \in Renders :
        (rendered[i].renderer = rendered[j].renderer /\ rendered[i].before = rendered[j].before)
            => rendered[i].text = rendered[j].text

\* a model with every kind of edge has been rendered twice by one renderer
C1_Reached ==
    \E i \in Renders : \E j \in Renders :
        /\ i < j
        /\ rendered[i].renderer = rendered[j].renderer
        /\ rendered[i].before = rendered[j].before
        /\ HasEveryEdge(rendered[i].before)

\* what Render is to leave alone: every classifier of the Registry, the alias
\* table and the renamed-struct table
Registry(q) ==
    [Structure |-> q.Structure, AllAliases |-> q.AllAliases,
     AllRenamedStructs |-> q.AllRenamedStructs]

IsRenderStep ==
    /\ Len(rendered') = Len(rendered) + 1
    /\ rendered'[Len(rendered')].call = "Render"

\* C2: a Render call leaves every classifier of the Registry, the alias table
\* and the renamed-struct table as they were, for every options value,
\* AggregatePrivateMembers = true included.
C2_RenderLeavesModelUnchanged ==
    [][IsRenderStep => Registry(p') = Registry(p)]_vars

\* a Render call with AggregatePrivateMembers = true on a model with a
\* private aggregation
C2_Reached ==
    \E i \in Renders :
        /\ rendered[i].before.RenderingOptions.AggregatePrivateMembers
        /\ \E e \in Entries(rendered[i].before) :
               EntryOf(rendered[i].before, e).PrivateAggregations # {}

---------------------------------------------------------------------------
(* Claims about the rendering options.                                     *)

\* NewClassDiagramWithOptions has called SetRenderingOptions
OptionsHandled == pc \in {"built", "failed", "options panic"}

RecognizedKeys(ro) == \A k \in DOMAIN ro : k \in KnownOptions

\* C11: SetRenderingOptions returns an error when the option map holds a key
\* that is none of the eleven RenderingOption constants, and returns nil when
\* every key is one of them; after an error NewClassDiagramWithOptions
\* returns no ClassParser and nothing is rendered.
C11_UnknownKeyIsError ==
    OptionsHandled =>
        /\ ~RecognizedKeys(options) => pc = "failed"
        /\ RecognizedKeys(options) => pc = "built"
        /\ pc = "failed" => Renders = {}

\* SetRenderingOptions has been handed a map of recognized keys only
C11_Reached ==
    /\ OptionsHandled
    /\ DOMAIN options # {}
    /\ RecognizedKeys(options)

---------------------------------------------------------------------------
(* Claims about the declaration handlers of the model builder.             *)

\* the step hands one more declaration to parseFileDeclarations
DeclStep == Len(history') = Len(history) + 1

NewDecl == history'[Len(history')]

\* the registry entry at e, or the empty Struct getOrCreateStruct would make
EntryOr(q, e) == IF e \in Entries(q) THEN EntryOf(q, e) ELSE NewStruct(e[1])

\* the bare name of a receiver type: the pointer and the type arguments removed
RECURSIVE BareReceiver(_)
BareReceiver(t) ==
    CASE t.kind \in {"StarExpr", "IndexExpr", "ParenExpr"} -> BareReceiver(t.X)
      [] OTHER -> t.Name

HasMethod(st, name) == \E i \in DOMAIN st.Functions : st.Functions[i].Name = name

\* C16: a method declaration whose receiver is T, *T or a generic
\* instantiation of T (with or without pointer) is attached to the classifier
\* of the bare name T in the current namespace, which is created if absent;
\* its kind becomes record when it was empty and stays as it was otherwise.
C16_MethodAttachedToReceiver ==
    [][(DeclStep /\ NewDecl.kind = "FuncDecl" /\ NewDecl.Recv # <<>>) =>
          LET e == <<p.CurrentPackageName, BareReceiver(NewDecl.Recv[1].Type)>> IN
          /\ e \in Entries(p')
          /\ HasMethod(EntryOf(p', e), NewDecl.Name)
          /\ Len(EntryOf(p', e).Functions) = Len(EntryOr(p, e).Functions) + 1
          /\ EntryOf(p', e).Type =
                 (IF EntryOr(p, e).Type # <<>> THEN EntryOr(p, e).Type ELSE kClass)]_vars

\* a method whose receiver is a pointer to a generic instantiation has been
\* declared
C16_Reached ==
    /\ pc = "build"
    /\ history # <<>>
    /\ LastDecl = DeclMethodLA

\* a declaration of one type specification
IsTypeDecl(d) == d.kind = "GenDecl" /\ Len(d.Specs) = 1 /\ d.Specs[1].kind = "TypeSpec"

\* the type behind pointer and slice wrappers
RECURSIVE BehindWrappers(_)
BehindWrappers(t) ==
    CASE t.kind = "StarExpr" -> BehindWrappers(t.X)
      [] t.kind = "ArrayType" -> BehindWrappers(t.Elt)
      [] OTHER -> t

\* type A B, type A *B or type A []B for a non-primitive name B
IsAliasOfNamedType(d) ==
    /\ IsTypeDecl(d)
    /\ BehindWrappers(d.Specs[1].Type).kind = "Ident"
    /\ ~isPrimitive(BehindWrappers(d.Specs[1].Type))

AliasDeclaredBy(q, d) == q.AllAliases[q.CurrentPackageName \o Dot \o d.Specs[1].Name]

Contains(s, sub) == Occurrences(s, sub) # {}

\* C17: the Alias recorded for a declaration whose underlying type is the
\* non-primitive name B of the same namespace N, directly or behind pointer
\* and slice wrappers, carries the qualified name N.B: it is that name when B
\* is the underlying type itself, and holds it behind the wrappers' markers.
C17_AliasNamesQualifiedType ==
    (pc = "build" /\ history # <<>> /\ IsAliasOfNamedType(LastDecl)) =>
        LET qualified == p.CurrentPackageName \o Dot
                             \o BehindWrappers(LastDecl.Specs[1].Type).Name
        IN  /\ Contains(AliasDeclaredBy(p, LastDecl).Name, qualified)
            /\ LastDecl.Specs[1].Type.kind = "Ident" =>
                   AliasDeclaredBy(p, LastDecl).Name = qualified

\* type W Foo has been declared
C17_Reached ==
    /\ pc = "build"
    /\ history # <<>>
    /\ LastDecl = DeclAliasW
    /\ FieldPackage \o Dot \o <<"W">> \in DOMAIN p.AllAliases

\* the names the model builder stores: classifier names, composition
\* entries, the keys of the three tables, and the names of every Alias
StoredNames(q) ==
    {e[2] : e \in Entries(q)}
    \cup UNION {EntryOf(q, e).Composition : e \in Entries(q)}
    \cup q.AllStructs \cup q.AllInterfaces \cup DOMAIN q.AllAliases
    \cup {q.AllAliases[k].Name : k \in DOMAIN q.AllAliases}
    \cup {q.AllAliases[k].AliasOf : k \in DOMAIN q.AllAliases}

\* C18: no name stored by processSpec, handleFuncDecl and
\* handleGenDecInterfaceType holds the placeholder {packageName}, also for a
\* type expression that references more than one non-primitive named type.
C18_NoPlaceholderStored ==
    \A name \in StoredNames(p) : ~Contains(name, packageConstant)

\* type M map[Foo]Bar has been declared
C18_Reached ==
    /\ pc = "build"
    /\ history # <<>>
    /\ LastDecl = DeclAliasM
    /\ FieldPackage \o Dot \o <<"M">> \in DOMAIN p.AllAliases

IsInterfaceDecl(d) == IsTypeDecl(d) /\ d.Specs[1].Type.kind = "InterfaceType"

Members(d) == d.Specs[1].Type.Methods

\* the qualified name of an interface embedded as a bare name or as a
\* qualified reference
EmbeddedName(q, t) ==
    IF t.kind = "Ident" THEN q.CurrentPackageName \o Dot \o t.Name
    ELSE RealPackageName(t.X.Name, q.AllImports) \o Dot \o t.Sel

EmbeddedNames(q, d) ==
    {EmbeddedName(q, Members(d)[i].Type) :
        i \in {j \in DOMAIN Members(d) : Members(d)[j].Type.kind \in {"Ident", "SelectorExpr"}}}

Signatures(d) == {i \in DOMAIN Members(d) : Members(d)[i].Type.kind = "FuncType"}

\* C20: an interface declaration adds to the composition set of the declared
\* interface the qualified name of every interface it embeds, whether as a
\* bare name or as otherNamespace.Name, and nothing else; every method
\* signature member adds one Method.
C20_InterfaceMembersRecorded ==
    [][(DeclStep /\ IsInterfaceDecl(NewDecl) /\ pc' = "build") =>
          LET e == <<p.CurrentPackageName, NewDecl.Specs[1].Name>> IN
          /\ e \in Entries(p')
          /\ EntryOf(p', e).Composition =
                 EntryOr(p, e).Composition \cup EmbeddedNames(p, NewDecl)
          /\ Len(EntryOf(p', e).Functions) =
                 Len(EntryOr(p, e).Functions) + Cardinality(Signatures(NewDecl))]_vars

\* an interface that embeds q.H has been declared
C20_Reached ==
    /\ pc = "build"
    /\ history # <<>>
    /\ LastDecl = DeclInterfaceK
    /\ <<FieldPackage, <<"K">>>> \in Entries(p)

---------------------------------------------------------------------------
(* Claims about the classification of alias declarations.                  *)

WrapperKinds == {"ArrayType", "StarExpr", "MapType", "ChanType", "Ellipsis"}

\* the type reached by stripping every array, pointer, map (through its
\* value), channel and variadic wrapper
RECURSIVE Stripped(_)
Stripped(t) ==
    CASE t.kind \in {"ArrayType", "Ellipsis"} -> Stripped(t.Elt)
      [] t.kind = "StarExpr" -> Stripped(t.X)
      [] t.kind \in {"MapType", "ChanType"} -> Stripped(t.Value)
      [] OTHER -> t

\* the Alias processSpec recorded for type X exp, when it recorded one
DeclaredAlias == FieldPackage \o Dot \o <<"X">>

IsAliasDeclared == fpc = "declared" /\ DeclaredAlias \in DOMAIN p.AllAliases

TaggedBuiltin(alias) == HasPrefix(alias.Name, BuiltinPackageName \o Dot)

---------------------------------------------------------------------------
(* Claims about aggregation lines across Render calls.                     *)

\* the model as NewClassDiagramWithOptions returned it: the parser the first
\* call was made on
BuiltModel == rendered[1].before

\* the targets the builder placed in PrivateAggregations alone
PrivateOnly(structure) == structure.PrivateAggregations \ structure.Aggregations

\* the text of a Render call holds the aggregation line from the Struct
\* called name to target
EmitsAggregation(call, structure, name, target) ==
    IF call.renderer = "plantuml"
    THEN \E color \in Colors :
             Contains(call.text,
                 plantuml_AggregationLine(call.before, structure, name, color,
                                          QualifiedTarget(target, structure)))
    ELSE Contains(call.text,
             mermaid_AggregationLine(call.before, structure, name,
                                     QualifiedTarget(target, structure)))

PublicAggregationsOnly(q) ==
    q.RenderingOptions.Aggregations /\ ~q.RenderingOptions.AggregatePrivateMembers

\* C15: in any sequence of calls on one built model, a Render made with
\* Aggregations = true and AggregatePrivateMembers = false emits no
\* aggregation line to a target the builder placed only in
\* PrivateAggregations, whatever calls preceded it.
C15_PrivateTargetsStayHidden ==
    \A i \in Renders :
        PublicAggregationsOnly(rendered[i].before) =>
            \A e \in Entries(BuiltModel) :
                \A target \in PrivateOnly(EntryOf(BuiltModel, e)) :
                    ~EmitsAggregation(rendered[i], EntryOf(BuiltModel, e), e[2], target)

\* a Render with Aggregations = true and AggregatePrivateMembers = false on a
\* model whose builder recorded a private-only target, after a Render with
\* AggregatePrivateMembers = true
C15_Reached ==
    \E i \in Renders : \E j \in Renders :
        /\ j < i
        /\ rendered[j].before.RenderingOptions.AggregatePrivateMembers
        /\ PublicAggregationsOnly(rendered[i].before)
        /\ \E e \in Entries(BuiltModel) : PrivateOnly(EntryOf(BuiltModel, e)) # {}
---------------------------------------------------------------------------
(* Claims about the lines of one rendered document.                        *)

\* the lines of a text, in order: what stands before each "\n"
LineEnds(text) == {i \in DOMAIN text : text[i] = "\n"}

LineFrom(text, ends, e) ==
    SubSeq(text, Max({0} \cup {j \in ends : j < e}) + 1, e - 1)

LinesAt(text, ends, order) == [k \in DOMAIN order |-> LineFrom(text, ends, order[k])]

\* the positions in S, ascending
RECURSIVE Ascending(_)
Ascending(S) == IF S = {} THEN <<>> ELSE <<Min(S)>> \o Ascending(S \ {Min(S)})

TextLines(text) == LinesAt(text, LineEnds(text), Ascending(LineEnds(text)))

HasSuffix(s, suffix) ==
    Len(s) >= Len(suffix) /\ SubSeq(s, Len(s) - Len(suffix) + 1, Len(s)) = suffix

\* the Render calls and the lines of their texts
Documents ==
    {[call |-> rendered[i], lines |-> TextLines(rendered[i].text)] : i \in Renders}

\* the name a renderer prints for the target c
Emitted(renderer, c) == IF renderer = "mermaid" THEN underscore(c) ELSE c

\* line is the aggregation line of the renderer from the Struct called name
\* to the target printed as target
IsAggregationLine(renderer, line, structure, name, target) ==
    IF renderer = "plantuml"
    THEN /\ HasPrefix(line, <<"\"">> \o structure.PackageName \o Dot \o name \o <<"\"">>)
         /\ HasSuffix(line, <<"]", "-", " ", "\"">> \o target \o <<"\"">>)
         /\ Contains(line, <<" ", "o", "-", "[">>)
    ELSE HasPrefix(line, underscore(structure.PackageName) \o <<"_">> \o name \o <<" ", "-", "-", "o", " ">>
                             \o target \o <<" ", ":", " ">>)

\* where the lines of a document hold the aggregation line from the Struct
\* to the entry a of its aggregation set
AggregationLinesTo(doc, structure, name, a) ==
    {k \in DOMAIN doc.lines :
        IsAggregationLine(doc.call.renderer, doc.lines[k], structure, name,
            Emitted(doc.call.renderer, QualifiedTarget(a, structure)))}

\* the aggregation set Render works on for a Struct of q
RenderedAggregations(q, e) == AfterRenderAggregations(q, EntryOf(q, e)).Aggregations

MemberGap(renderer) == IF renderer = "plantuml" THEN <<" ">> ELSE <<>>

\* line is a member line of a classifier block: the access modifier, then the
\* name, then what follows the name (" " for a field, "(" for a method)
IsMemberLine(renderer, line, modifier, name, follows) ==
    HasPrefix(line, Tabs(2) \o modifier \o MemberGap(renderer) \o name \o follows)

FieldNames(q) ==
    UNION {{EntryOf(q, e).Fields[i].Name : i \in DOMAIN EntryOf(q, e).Fields} :
              e \in Entries(q)}

MethodNames(q) ==
    UNION {{EntryOf(q, e).Functions[i].Name : i \in DOMAIN EntryOf(q, e).Functions} :
              e \in Entries(q)}

IsFieldLine(call, line, modifier) ==
    \E name \in FieldNames(call.before) :
        IsMemberLine(call.renderer, line, modifier, name, <<" ">>)

IsMethodLine(call, line, modifier) ==
    \E name \in MethodNames(call.before) :
        IsMemberLine(call.renderer, line, modifier, name, <<"(">>)

Modifiers == {<<"+">>, <<"-">>}

\* C13: in the document of either renderer a classifier block holds field
\* lines only if Fields is true, method lines only if Methods is true, and
\* lines of non-exported fields and methods only if PrivateMembers is true
\* as well.
C13_MemberLinesGatedByOptions ==
    \A doc \in Documents : \A k \in DOMAIN doc.lines :
        /\ (\E m \in Modifiers : IsFieldLine(doc.call, doc.lines[k], m))
               => doc.call.before.RenderingOptions.Fields
        /\ (\E m \in Modifiers : IsMethodLine(doc.call, doc.lines[k], m))
               => doc.call.before.RenderingOptions.Methods
        /\ (IsFieldLine(doc.call, doc.lines[k], <<"-">>)
                \/ IsMethodLine(doc.call, doc.lines[k], <<"-">>))
               => doc.call.before.RenderingOptions.PrivateMembers

\* a document rendered with Fields = false, or with Methods = false, from a
\* model that holds exported and non-exported fields and methods
C13_Reached ==
    \E doc \in Documents :
        /\ ~doc.call.before.RenderingOptions.Fields \/ ~doc.call.before.RenderingOptions.Methods
        /\ \E f \in FieldNames(doc.call.before) : IsLower(f[1])
        /\ \E f \in FieldNames(doc.call.before) : IsUpper(f[1])
        /\ \E f \in MethodNames(doc.call.before) : IsLower(f[1])
        /\ \E f \in MethodNames(doc.call.before) : IsUpper(f[1])

---------------------------------------------------------------------------
(* The order of the lines of a document.                                   *)

Quote == <<"\"">>
Front(s) == SubSeq(s, 1, Len(s) - 1)

\* what stands before the first sub of s, and what stands after it
Before(s, sub) == SubSeq(s, 1, Min(Occurrences(s, sub)) - 1)
After(s, sub) == SubSeq(s, Min(Occurrences(s, sub)) + Len(sub), Len(s))

EdgeKinds == {"Composition", "Extends", "Aggregations"}

\* the connective of an edge line
EdgeToken(renderer, kind) ==
    CASE renderer = "plantuml" /\ kind = "Composition" -> <<" ", "*", "-", "[">>
      [] renderer = "plantuml" /\ kind = "Extends" -> <<" ", "<", "|", "-", "[">>
      [] renderer = "plantuml" /\ kind = "Aggregations" -> <<" ", "o", "-", "[">>
      [] renderer = "plantuml" /\ kind = "Alias" -> <<" ", "#", ".", "[">>
      [] renderer = "mermaid" /\ kind = "Composition" -> <<" ", "-", "-", "|", ">", " ">>
      [] renderer = "mermaid" /\ kind = "Extends" -> <<" ", "<", "|", ".", ".", " ">>
      [] renderer = "mermaid" /\ kind = "Aggregations" -> <<" ", "-", "-", "o", " ">>
      [] renderer = "mermaid" /\ kind = "Alias" -> <<" ", ".", ".", " ">>

IsEdgeLine(renderer, kind, line) == Contains(line, EdgeToken(renderer, kind))

\* the first and the last quoted name of a PlantUML edge line
FirstQuoted(line) == Before(Tail(line), Quote)
LastQuoted(line) == SplitLast(Front(line), "\"")[2]

\* the classifier an edge line is written for: the right end of a composition
\* or extension line, the left end of an aggregation line
EdgeClassifier(renderer, kind, line) ==
    IF renderer = "plantuml"
    THEN (IF kind = "Aggregations" THEN FirstQuoted(line) ELSE LastQuoted(line))
    ELSE (IF kind = "Aggregations" THEN Before(line, EdgeToken(renderer, kind))
          ELSE Before(After(line, EdgeToken(renderer, kind)), <<" ", ":", " ">>))

\* the target name an edge line prints
EdgeTarget(renderer, kind, line) ==
    IF renderer = "plantuml"
    THEN (IF kind = "Aggregations" THEN LastQuoted(line) ELSE FirstQuoted(line))
    ELSE (IF kind = "Aggregations"
          THEN Before(After(line, EdgeToken(renderer, kind)), <<" ", ":", " ">>)
          ELSE Before(line, EdgeToken(renderer, kind)))

\* the name an edge line prints for the Struct called name
EmittedClassifier(renderer, structure, name) ==
    IF renderer = "plantuml" THEN structure.PackageName \o Dot \o name
    ELSE underscore(structure.PackageName) \o <<"_">> \o name

\* the kind of edge a line is written for, "" for any other line
LineKind(renderer, line) ==
    CASE IsEdgeLine(renderer, "Composition", line) -> "Composition"
      [] IsEdgeLine(renderer, "Extends", line) -> "Extends"
      [] IsEdgeLine(renderer, "Aggregations", line) -> "Aggregations"
      [] IsEdgeLine(renderer, "Alias", line) -> "Alias"
      [] OTHER -> ""

\* an edge line read back: its kind, the classifier it is written for and the
\* target name it prints
EdgeRead(renderer, kind, line) ==
    IF kind \in EdgeKinds
    THEN [kind |-> kind, line |-> line,
          classifier |-> EdgeClassifier(renderer, kind, line),
          target |-> EdgeTarget(renderer, kind, line)]
    ELSE [kind |-> kind, line |-> line, classifier |-> <<>>, target |-> <<>>]

ReadLines(renderer, lines) ==
    [k \in DOMAIN lines |-> EdgeRead(renderer, LineKind(renderer, lines[k]), lines[k])]

\* the first line of what renderStructure writes for the entry e of q
HeaderLine(renderer, q, e) ==
    IF renderer = "plantuml"
    THEN TextLines(plantuml_renderStructure(q, EntryOf(q, e), e[2]))[1]
    ELSE TextLines(mermaid_renderStructure(q, EntryOf(q, e), e[1], e[2]))[1]

\* where the namespace of a PlantUML document opens; Mermaid has no such line
NamespaceLine(pack) == <<"n", "a", "m", "e", "s", "p", "a", "c", "e", " ">> \o pack \o <<" ", "{">>

NamespacePlace(renderer, lines, pack) ==
    IF renderer = "plantuml"
    THEN Min({k \in DOMAIN lines : lines[k] = NamespaceLine(pack)} \cup {Len(lines) + 1})
    ELSE 0

\* where the block of a classifier opens: the first header line after the
\* opening of its namespace, or past the end without one
HeaderPlace(lines, header, namespace) ==
    Min({k \in DOMAIN lines : lines[k] = header /\ namespace < k} \cup {Len(lines) + 1})

\* the name an edge line prints for the Struct called name
ClassifierOf(call, e) ==
    EmittedClassifier(call.renderer, EntryOf(call.before, e), e[2])

\* the Render calls with the lines of their texts, the edge lines read back,
\* and where the namespace and the block of every entry open
OrderedDocument(call, lines) ==
    [call |-> call, lines |-> lines, edges |-> ReadLines(call.renderer, lines),
     namespace |-> [e \in Entries(call.before) |->
                       NamespacePlace(call.renderer, lines, e[1])],
     header |-> [e \in Entries(call.before) |->
                    HeaderPlace(lines, HeaderLine(call.renderer, call.before, e),
                                NamespacePlace(call.renderer, lines, e[1]))],
     classifier |-> [e \in Entries(call.before) |-> ClassifierOf(call, e)]]

OrderedDocuments == {OrderedDocument(doc.call, doc.lines) : doc \in Documents}

\* the edge lines of one kind written for one classifier, in document order
EdgesOf(doc, kind, e) ==
    SelectSeq(doc.edges,
        LAMBDA edge : edge.kind = kind /\ edge.classifier = doc.classifier[e])

EdgeLines(edges) == [k \in DOMAIN edges |-> edges[k].line]

EdgeTargets(edges) == [k \in DOMAIN edges |-> edges[k].target]

\* no string of the sequence stands after a greater one
NonDescending(seq) == \A i, j \in DOMAIN seq : i < j => ~StrLess(seq[j], seq[i])

EntryBefore(e1, e2) ==
    StrLess(e1[1], e2[1]) \/ (e1[1] = e2[1] /\ StrLess(e1[2], e2[2]))

\* namespaces open in ascending name order, and the blocks of the classifiers
\* open in ascending order of namespace and, within one namespace, of name
BlocksInOrder(doc) ==
    /\ \A e \in DOMAIN doc.header :
           doc.namespace[e] <= Len(doc.lines) /\ doc.header[e] <= Len(doc.lines)
    /\ \A e1, e2 \in DOMAIN doc.header :
           /\ StrLess(e1[1], e2[1])
                  => doc.namespace[e1] < doc.namespace[e2] \/ doc.call.renderer = "mermaid"
           /\ EntryBefore(e1, e2) => doc.header[e1] < doc.header[e2]

\* every alias edge line stands after every line of a classifier block
AliasesLast(doc) ==
    \A k, b \in DOMAIN doc.lines :
        (doc.edges[k].kind = "Alias" /\ HasPrefix(doc.lines[b], tab)) => b < k

\* the names of the aggregation lines of a Struct as renderAggregationMap
\* visits its entries: in ascending order of the names the set holds
AggregationTargetsOf(renderer, structure, sorted) ==
    [k \in DOMAIN sorted |-> Emitted(renderer, QualifiedTarget(sorted[k], structure))]

SortedAggregationTargets(call, e) ==
    AggregationTargetsOf(call.renderer, EntryOf(call.before, e),
                         SortedSeq(RenderedAggregations(call.before, e)))

\* C14 as stated: namespaces and classifier blocks in ascending name order,
\* the edge lines of one kind of one classifier in ascending order of the
\* target name they print, and every alias edge line after the last
\* classifier block.
C14_OrderedByEmittedTarget ==
    \A doc \in OrderedDocuments :
        /\ BlocksInOrder(doc)
        /\ AliasesLast(doc)
        /\ \A e \in DOMAIN doc.header : \A kind \in EdgeKinds :
               NonDescending(EdgeTargets(EdgesOf(doc, kind, e)))

\* C14: namespaces and classifier blocks in ascending name order, every alias
\* edge line after the last classifier block, the composition and the
\* extension lines of one classifier in ascending order of the line, and its
\* aggregation lines in ascending order of the target names as the
\* aggregation set holds them, before the renderer qualifies or rewrites them.
C14_OrderedBySortKey ==
    \A doc \in OrderedDocuments :
        /\ BlocksInOrder(doc)
        /\ AliasesLast(doc)
        /\ \A e \in DOMAIN doc.header :
               /\ NonDescending(EdgeLines(EdgesOf(doc, "Composition", e)))
               /\ NonDescending(EdgeLines(EdgesOf(doc, "Extends", e)))
               /\ doc.call.before.RenderingOptions.Aggregations
                      => EdgeTargets(EdgesOf(doc, "Aggregations", e))
                             = SortedAggregationTargets(doc.call, e)

\* a Mermaid document of two namespaces, one with several classifiers, with
\* alias lines, and with a classifier that has two composition lines and two
\* aggregation lines whose printed targets are not in ascending order
C14_Reached ==
    \E doc \in OrderedDocuments :
        /\ doc.call.renderer = "mermaid"
        /\ Cardinality({e[1] : e \in DOMAIN doc.header}) > 1
        /\ \E k \in DOMAIN doc.edges : doc.edges[k].kind = "Alias"
        /\ \E e \in DOMAIN doc.header :
               /\ Len(EdgesOf(doc, "Composition", e)) > 1
               /\ Len(EdgesOf(doc, "Aggregations", e)) > 1
               /\ ~NonDescending(EdgeTargets(EdgesOf(doc, "Aggregations", e)))
---------------------------------------------------------------------------
(* Claims about what SetRenderingOptions leaves of the rendering options.   *)

IsOptionsStep ==
    /\ Len(rendered') = Len(rendered) + 1
    /\ rendered'[Len(rendered')].call = "SetRenderingOptions"
    /\ pc' = "built"

\* the field of RenderingOptions a recognized key sets
OptionField(option) ==
    CASE option = RenderAggregations -> "Aggregations"
      [] option = RenderAliases -> "Aliases"
      [] option = RenderCompositions -> "Compositions"
      [] option = RenderFields -> "Fields"
      [] option = RenderImplementations -> "Implementations"
      [] option = RenderMethods -> "Methods"
      [] option = RenderConnectionLabels -> "ConnectionLabels"
      [] option = RenderTitle -> "Title"
      [] option = RenderNotes -> "Notes"
      [] option = AggregatePrivateMembers -> "AggregatePrivateMembers"
      [] option = RenderPrivateMembers -> "PrivateMembers"

ReturnedError(call) == call.text = InvalidOption

\* a call that returned nil left the option of every key absent from its map
\* as it was
AbsentKeysKept ==
    \A option \in KnownOptions \ DOMAIN options' :
        p'.RenderingOptions[OptionField(option)] = p.RenderingOptions[OptionField(option)]

\* C21: SetRenderingOptions is all-or-nothing: when it returns an error for
\* an unrecognized key every field of RenderingOptions has the value it had
\* before the call, whatever the map holds and in whatever order its keys
\* are visited; when it returns nil every option whose key is absent from
\* the map keeps its value.
C21_OptionsAllOrNothing ==
    [][IsOptionsStep =>
          IF ReturnedError(rendered'[Len(rendered')])
          THEN p'.RenderingOptions = p.RenderingOptions
          ELSE AbsentKeysKept]_vars

\* SetRenderingOptions has returned an error for a map that holds a
\* recognized key next to the unrecognized one, on a parser whose option of
\* the recognized key had another value than the map gives
C21_Reached ==
    /\ rendered # <<>>
    /\ rendered[Len(rendered)].call = "SetRenderingOptions"
    /\ ReturnedError(rendered[Len(rendered)])
    /\ UnknownOption \in DOMAIN options
    /\ RenderAggregations \in DOMAIN options
    /\ rendered[Len(rendered)].before.RenderingOptions.Aggregations
           # options[RenderAggregations].b
====
